---- MODULE Spec2Model ----
(***************************************************************************)
(* Corten-FontSystem: the glyph cache and renderer (glyph_renderer), the   *)
(* font registry and its matcher (font_registry), the paragraph layout     *)
(* engine (text_layout) and the container parser (font_parser), each as a  *)
(* state machine over its own variables.                                   *)
(*                                                                         *)
(* Lengths that the code keeps in f32 are kept here as integers in a unit  *)
(* chosen so that every division the code performs on them is exact.       *)
(***************************************************************************)
EXTENDS Integers, Sequences, FiniteSets, TLC

VARIABLES
    \* ---- glyph_renderer: GlyphCache / GlyphRenderer ----
    entries,            \* LruCache<CacheKey, GlyphBitmap>: least recently used first
    memory_bytes,       \* GlyphCache.memory_bytes
    max_memory_bytes,   \* GlyphCache.max_memory_bytes
    max_entries,        \* the LruCache capacity (CacheConfig.max_entries)
    stats,              \* CacheStatistics {hits, misses, evictions}
    served,             \* what the last cache / renderer call was and returned
    last_use,           \* per key, the last call that put it or found it, and which
    ops,                \* number of calls made so far (bounds the run)
    \* ---- font_registry: FontRegistry ----
    fonts,              \* HashMap<FontId, FontFace>
    iter_order,         \* the order in which iterating the HashMap yields its keys
    next_id,            \* FontRegistry.next_id
    reg_call,           \* the last registry call: its arguments and what it returned
    issued,             \* history: the face ids handed out by the loads, in order
    \* ---- text_layout: ParagraphLayout::layout_paragraph ----
    text,               \* the source text, a sequence of characters
    shaped_text,        \* ShapedText {glyphs, height, baseline}
    options,            \* LayoutOptions
    breaks,             \* the Vec<LineBreak> found for the text
    lines,              \* break_into_lines: the lines pushed so far
    current_line_glyphs,\* break_into_lines: the glyphs of the line being built
    current_width,      \* break_into_lines: its width
    line_start_char,    \* break_into_lines: where it starts
    char_index,         \* break_into_lines: the index of the next glyph
    last_fit,           \* what the last iteration of the greedy loop saw and did
    layout_result,      \* the Result layout_paragraph returns
    lay_pc,             \* where layout_paragraph is: "start", "fit" or "done"
    \* ---- font_parser: OpenTypeFont ----
    container,          \* the bytes handed to OpenTypeFont::parse, by their fields
    parse_result,       \* what parse returned: a font, a ParseError, or a panic
    table_result,       \* what the last get_table returned
    par_pc,             \* "start" before parse, "parsed" with a font, "dead" otherwise
    \* ---- font_parser: variable fonts ----
    table_data,         \* the bytes handed to FvarTable::parse or AvarTable::parse
    decoded,            \* what the decoder returned
    coords,             \* VariationCoordinates.values: Vec<(Tag, f32)>
    coords_call,        \* the last set_axis / get_axis call and what it returned
    last_set,           \* history: per tag, the value of the latest set_axis
    \* ---- text_shaper: TextShaper ----
    shape_config,       \* ShapingCacheConfig {max_entries, enable_statistics}
    shape_entries,      \* ShapingCache.cache: least recently used first
    shape_stats,        \* ShapingCache.stats {hits, misses, evictions}
    shape_call,         \* the last shape_text call: its number, arguments and result
    hb_output,          \* the glyph infos and positions the engine returned (26.6)
    hb_spacing,         \* options.letter_spacing of the conversion
    hb_shaped           \* the glyphs and width the conversion loop made of them

cacheVars == <<entries, memory_bytes, max_memory_bytes, max_entries, stats, served,
               last_use, ops>>

regVars == <<fonts, iter_order, next_id, reg_call, issued>>

layVars == <<text, shaped_text, options, breaks, lines, current_line_glyphs,
             current_width, line_start_char, char_index, last_fit, layout_result, lay_pc>>

varVars == <<table_data, decoded, coords, coords_call, last_set>>

parVars == <<container, parse_result, table_result, par_pc, varVars>>

shpVars == <<shape_config, shape_entries, shape_stats, shape_call,
             hb_output, hb_spacing, hb_shaped>>

vars == <<cacheVars, regVars, layVars, parVars, shpVars>>

(***************************************************************************)
(* Bounds of the model.                                                    *)
(***************************************************************************)
MaxOps == 4             \* calls per run of the glyph cache, and of a coordinate set
MaxCalls == 3           \* calls per run of the glyph renderer
MaxBitmapLen == 2       \* largest bitmap.data.len() the rasterizer returns
MaxFonts == 3           \* faces registered per run of the registry
MaxTextLen == 4         \* characters of the text laid out
MaxTables == 2          \* entries of a table directory
MaxShapes == 3          \* shape_text calls per run of the shaper
MaxLineLen == 5         \* glyphs of a line handed to the justifier
MaxGlyphs == 3          \* glyphs the shaping engine returns for a text

(***************************************************************************)
(* font_registry: FontRegistry.                                            *)
(***************************************************************************)
\* str::to_lowercase on the family names of the model.
ToLowercase(name) ==
    CASE name = "Arial" -> "arial"
      [] name = "ARIAL" -> "arial"
      [] name = "Helvetica" -> "helvetica"
      [] name = "Unknown" -> "unknown"
      [] OTHER -> name

\* Font files handed to load_font_data: what ttf_parser reads from them.
\* weight is usWeightClass as ttf_parser reports it.
FontFiles ==
    { [empty |-> TRUE,  parses |-> FALSE, family |-> "", weight |-> 0, italic |-> FALSE],
      [empty |-> FALSE, parses |-> FALSE, family |-> "", weight |-> 0, italic |-> FALSE],
      [empty |-> FALSE, parses |-> TRUE, family |-> "Arial", weight |-> 400, italic |-> FALSE],
      [empty |-> FALSE, parses |-> TRUE, family |-> "Arial", weight |-> 700, italic |-> FALSE],
      [empty |-> FALSE, parses |-> TRUE, family |-> "ARIAL", weight |-> 450, italic |-> TRUE],
      [empty |-> FALSE, parses |-> TRUE, family |-> "Helvetica", weight |-> 700, italic |-> FALSE] }

\* enum FontWeight discriminants; enum FontStretch::Normal
FontWeights == {100, 200, 300, 400, 500, 600, 700, 800, 900}
StretchNormal == 100

\* load_font_data: the weight reported by ttf_parser mapped to FontWeight.
WeightOf(n) == IF n \in FontWeights THEN n ELSE 400

\* The FontFace load_font_data builds from a parsed file.
FaceOf(id, file) ==
    [id |-> id, family_name |-> file.family, weight |-> WeightOf(file.weight),
     style |-> IF file.italic THEN "Italic" ELSE "Normal", stretch |-> StretchNormal]

\* Descriptors handed to match_font.
FamilyChains ==
    { <<"arial">>, <<"Unknown", "Arial">>, <<"Arial", "Helvetica">> }
Descriptors ==
    [family : FamilyChains, weight : {400, 700}, style : {"Normal", "Italic"},
     stretch : {StretchNormal}]

Abs(n) == IF n < 0 THEN -n ELSE n

\* descriptor.family.iter().any(|f| f.to_lowercase() == font.family_name.to_lowercase())
FamilyMatches(descriptor, font) ==
    \E i \in 1..Len(descriptor.family) :
        ToLowercase(descriptor.family[i]) = ToLowercase(font.family_name)

\* The score with a style penalty of 500.
ScoreWithSmallPenalty(descriptor, font) ==
    Abs(descriptor.weight - font.weight)
    + (IF descriptor.style # font.style THEN 500 ELSE 0)
    + Abs(descriptor.stretch - font.stretch)

\* The match score of match_font (lower is better).
Score(descriptor, font) ==
    Abs(descriptor.weight - font.weight)
    + (IF descriptor.style # font.style THEN 1000 ELSE 0)
    + Abs(descriptor.stretch - font.stretch)

\* The loop of match_font over the map in the order the HashMap yields its
\* entries; best is <<>> or <<font_id, score>>.
RECURSIVE MatchLoop(_, _, _, _)
MatchLoop(fs, order, descriptor, best) ==
    IF order = <<>> THEN best
    ELSE LET font_id == Head(order)
             font == fs[font_id]
             score == Score(descriptor, font)
             next == IF ~FamilyMatches(descriptor, font) THEN best
                     ELSE IF best = <<>> THEN <<font_id, score>>
                     ELSE IF score < best[2] THEN <<font_id, score>>
                     ELSE best
         IN  MatchLoop(fs, Tail(order), descriptor, next)

\* FontRegistry::match_font; the value is <<>> (None) or <<font_id>>.
MatchFont(fs, order, descriptor) ==
    IF DOMAIN fs = {} THEN <<>>
    ELSE LET best == MatchLoop(fs, order, descriptor, <<>>)
         IN  IF best = <<>> THEN <<>> ELSE <<best[1]>>

\* The orders in which iterating a HashMap with these keys can yield them:
\* the order follows the keys' hashes under the map's random state and
\* changes when the table is rehashed on growth.
RECURSIVE IterationOrders(_)
IterationOrders(ids) ==
    IF ids = {} THEN { <<>> }
    ELSE UNION { { <<id>> \o o : o \in IterationOrders(ids \ {id}) } : id \in ids }

\* self.next_id += 1 with the counter left where it was.
NextIdReused(id) == id

\* self.next_id += 1 (FontId is usize)
NextId(id) == id + 1

\* load_font_data taking the id before it validates the data.
LoadFontDataReservingId(fs, id, file) ==
    IF file.empty \/ ~file.parses
    THEN [fonts |-> fs, next_id |-> id + 1, result |-> [ok |-> FALSE, err |-> "InvalidFont"]]
    ELSE [fonts |-> [k \in DOMAIN fs \cup {id} |-> IF k = id THEN FaceOf(id, file) ELSE fs[k]],
          next_id |-> id + 1, result |-> [ok |-> TRUE, id |-> id]]

\* FontRegistry::load_font_data: the map and the counter after the call and
\* the Result returned.
LoadFontDataOf(fs, id, file) ==
    IF file.empty \/ ~file.parses
    THEN [fonts |-> fs, next_id |-> id, result |-> [ok |-> FALSE, err |-> "InvalidFont"]]
    ELSE [fonts |-> [k \in DOMAIN fs \cup {id} |-> IF k = id THEN FaceOf(id, file) ELSE fs[k]],
          next_id |-> NextId(id), result |-> [ok |-> TRUE, id |-> id]]

\* Paths handed to load_font_file: std::fs::read fails, or yields the bytes
\* of one of the font files.
FontPaths ==
    { [readable |-> FALSE, file |-> f] : f \in { g \in FontFiles : g.empty } }
    \cup { [readable |-> TRUE, file |-> f] : f \in FontFiles }

\* FontRegistry::load_font_file
LoadFontFileOf(fs, id, path) ==
    IF ~path.readable
    THEN [fonts |-> fs, next_id |-> id, result |-> [ok |-> FALSE, err |-> "FileNotFound"]]
    ELSE LoadFontDataOf(fs, id, path.file)

\* The loop of load_system_fonts giving up at the first file it cannot use.
RECURSIVE LoadSystemLoopStopsAtFailure(_, _, _, _)
LoadSystemLoopStopsAtFailure(fs, id, list, ids) ==
    IF list = <<>> THEN [fonts |-> fs, next_id |-> id, ids |-> ids]
    ELSE LET platform_font == Head(list)
         IN  IF ~platform_font.readable \/ ~platform_font.parses
             THEN [fonts |-> fs, next_id |-> id, ids |-> ids]
             ELSE LoadSystemLoopStopsAtFailure(
                      [k \in DOMAIN fs \cup {id} |->
                          IF k = id
                          THEN [id |-> id, family_name |-> platform_font.family,
                                weight |-> platform_font.weight,
                                style |-> platform_font.style, stretch |-> 100]
                          ELSE fs[k]],
                      id + 1, Tail(list), Append(ids, id))

\* What discover_system_fonts_detailed() reports and what reading and parsing
\* each path then gives: family, weight and style come from the platform.
PlatformFonts ==
    { [readable |-> FALSE, parses |-> FALSE, family |-> "Arial", weight |-> 400, style |-> "Normal"],
      [readable |-> TRUE,  parses |-> FALSE, family |-> "Arial", weight |-> 400, style |-> "Normal"],
      [readable |-> TRUE,  parses |-> TRUE,  family |-> "Arial", weight |-> 400, style |-> "Normal"],
      [readable |-> TRUE,  parses |-> TRUE,  family |-> "Helvetica", weight |-> 700, style |-> "Normal"] }

\* The lists of platform fonts one discovery can report.
PlatformFontLists ==
    { <<>> } \cup { <<f>> : f \in PlatformFonts }
             \cup { <<f, g>> : f \in PlatformFonts, g \in PlatformFonts }

\* The loop of load_system_fonts: unreadable and unparseable files are
\* skipped, every other one is stored under next_id and next_id is advanced.
\* The value is the map and the counter after the loop and the ids stored.
RECURSIVE LoadSystemLoop(_, _, _, _)
LoadSystemLoop(fs, id, list, ids) ==
    IF list = <<>> THEN [fonts |-> fs, next_id |-> id, ids |-> ids]
    ELSE LET platform_font == Head(list)
         IN  IF ~platform_font.readable \/ ~platform_font.parses
             THEN LoadSystemLoop(fs, id, Tail(list), ids)
             ELSE LoadSystemLoop(
                      [k \in DOMAIN fs \cup {id} |->
                          IF k = id
                          THEN [id |-> id, family_name |-> platform_font.family,
                                weight |-> platform_font.weight,
                                style |-> platform_font.style, stretch |-> StretchNormal]
                          ELSE fs[k]],
                      NextId(id), Tail(list), Append(ids, id))

\* Registries of two faces of one family, as two loads leave them: any
\* weight and style, and the stretch the loaders give every face.
ScoredFaces(id) ==
    [id : {id}, family_name : {"Arial"}, weight : {100, 400, 900},
     style : {"Normal", "Italic", "Oblique"}, stretch : {StretchNormal}]
ScoredRegistries == { 0 :> f @@ 1 :> g : f \in ScoredFaces(0), g \in ScoredFaces(1) }

\* Descriptors over the range of FontWeight and FontStretch.
ScoredDescriptors ==
    [family : { <<"arial">> }, weight : {100, 400, 900}, style : {"Normal", "Italic"},
     stretch : {50, StretchNormal, 200}]

\* The registry while another component runs.
RegistryIdle ==
    /\ fonts = << >>
    /\ iter_order = <<>>
    /\ next_id = 0
    /\ reg_call = [op |-> "none"]
    /\ issued = <<>>


(***************************************************************************)
(* text_layout: texts, shaped glyphs, line breaks.  Lengths are in 1/12 px.*)
(***************************************************************************)
\* The characters of the model: a letter, a wide letter, a space, a line
\* feed, and a letter that takes two bytes in UTF-8.
Chars == {"a", "W", " ", "\n", "é"}
Utf8Len(c) == IF c = "é" THEN 2 ELSE 1

RECURSIVE ByteLen(_)
ByteLen(t) == IF t = <<>> THEN 0 ELSE Utf8Len(Head(t)) + ByteLen(Tail(t))

\* The advance the shaper gives the glyph of a character.
AdvanceOf(c) ==
    CASE c = "W" -> 24
      [] c = "\n" -> 0
      [] OTHER -> 12

\* The ShapedText of a text: one glyph per character, each at the pen
\* position reached by the advances before it.
RECURSIVE ShapeGlyphs(_, _)
ShapeGlyphs(t, pen) ==
    IF t = <<>> THEN <<>>
    ELSE <<[glyph_id |-> Head(t), advance |-> AdvanceOf(Head(t)), x |-> pen]>>
         \o ShapeGlyphs(Tail(t), pen + AdvanceOf(Head(t)))

ShapedTextOf(t) == [glyphs |-> ShapeGlyphs(t, 0), height |-> 240, baseline |-> 180]
EmptyShapedText == ShapedTextOf(<<>>)

\* LineBreaker::find_breaks: unicode_linebreak::linebreaks over the text.  A
\* break is mandatory after a line feed and at the end of the text, and an
\* opportunity after spaces that are followed by a letter.
RECURSIVE BreaksFrom(_, _)
BreaksFrom(t, i) ==
    IF i > Len(t) THEN <<>>
    ELSE LET offset == ByteLen(SubSeq(t, 1, i))
             here == IF i = Len(t) \/ t[i] = "\n"
                     THEN <<[offset |-> offset, required |-> TRUE]>>
                     ELSE IF t[i] = " " /\ t[i + 1] \notin {" ", "\n"}
                     THEN <<[offset |-> offset, required |-> FALSE]>>
                     ELSE <<>>
         IN  here \o BreaksFrom(t, i + 1)
FindBreaks(t) == BreaksFrom(t, 1)

\* ParagraphLayout::should_break_here
ShouldBreakHere(index, bs, require_optional) ==
    \E i \in 1..Len(bs) :
        /\ bs[i].offset = index
        /\ (bs[i].required \/ (~require_optional /\ ~bs[i].required))

\* The emergency break of break_into_lines: the line would pass 1.2 times
\* max_width.
EmergencyBreakNever(width, glyph_width, max_width) == FALSE
EmergencyBreakAtOneAndAHalf(width, glyph_width, max_width) ==
    2 * (width + glyph_width) > 3 * max_width
EmergencyBreak(width, glyph_width, max_width) == 5 * (width + glyph_width) > 6 * max_width

\* A LayoutLine pushed without the last glyph collected for it.
NewLineDropsLast(gs, width, st, from, to) ==
    [glyphs |-> SubSeq(gs, 1, Len(gs) - 1), width |-> width, height |-> st.height,
     baseline |-> st.baseline, x_offset |-> 0, y_offset |-> 0, text_range |-> <<from, to>>]

\* A LayoutLine as break_into_lines pushes it.
NewLine(gs, width, st, from, to) ==
    [glyphs |-> gs, width |-> width, height |-> st.height, baseline |-> st.baseline,
     x_offset |-> 0, y_offset |-> 0, text_range |-> <<from, to>>]

(***************************************************************************)
(* text_layout: Justifier.                                                 *)
(***************************************************************************)
JustificationModes == {"Left", "Right", "Center", "Justify"}

\* Justifier::count_justification_gaps
RECURSIVE CountGaps(_, _)
CountGaps(gs, prev_advance) ==
    IF gs = <<>> THEN 0
    ELSE (IF prev_advance > 0 /\ 2 * Head(gs).advance > 3 * prev_advance THEN 1 ELSE 0)
         + CountGaps(Tail(gs), Head(gs).advance)
CountJustificationGaps(line) ==
    IF line.glyphs = <<>> THEN 0
    ELSE LET n == CountGaps(line.glyphs, 0) IN IF n > 1 THEN n ELSE 1

\* The loop of distribute_space over the glyphs of the line.
RECURSIVE ShiftGlyphs(_, _, _, _)
ShiftGlyphs(gs, space_per_gap, cumulative_offset, in_gap) ==
    IF gs = <<>> THEN <<>>
    ELSE LET g == Head(gs)
             adds == g.advance > 0 /\ in_gap
         IN  <<[g EXCEPT !.x = @ + cumulative_offset]>>
             \o ShiftGlyphs(Tail(gs), space_per_gap,
                            IF adds THEN cumulative_offset + space_per_gap
                            ELSE cumulative_offset,
                            IF g.advance > 0 THEN ~in_gap ELSE in_gap)

\* Justifier::distribute_space
DistributeSpace(line, target_width) ==
    LET extra_space == target_width - line.width
        gap_count == CountJustificationGaps(line)
    IN  IF extra_space <= 0 THEN [line EXCEPT !.x_offset = 0]
        ELSE IF gap_count = 0 THEN [line EXCEPT !.x_offset = 0]
        ELSE [line EXCEPT !.glyphs = ShiftGlyphs(line.glyphs, extra_space \div gap_count,
                                                 0, FALSE),
                          !.x_offset = 0,
                          !.width = target_width]

\* Justifier::justify_line
JustifyLine(line, target_width, mode) ==
    CASE mode = "Left" -> [line EXCEPT !.x_offset = 0]
      [] mode = "Right" -> [line EXCEPT !.x_offset = target_width - line.width]
      [] mode = "Center" -> [line EXCEPT !.x_offset = (target_width - line.width) \div 2]
      [] mode = "Justify" -> DistributeSpace(line, target_width)

\* justify_lines applying the mode to every line, the last one included.
JustifyLinesAll(ls, target_width, mode) ==
    [i \in 1..Len(ls) |-> JustifyLine(ls[i], target_width, mode)]

\* Justifier::justify_lines
JustifyLines(ls, target_width, mode) ==
    IF ls = <<>> THEN ls
    ELSE LET lines_to_justify == IF mode = "Justify" THEN Len(ls) - 1 ELSE Len(ls)
         IN  [i \in 1..Len(ls) |->
                 IF i <= lines_to_justify THEN JustifyLine(ls[i], target_width, mode)
                 ELSE [ls[i] EXCEPT !.x_offset = 0]]

\* The lines handed to the justifier by a caller of its own: the glyphs of a
\* short text of words and spaces, with the width of their advances.
LineChars == {"a", "W", " "}
RECURSIVE LineTextsOfLen(_)
LineTextsOfLen(n) ==
    IF n = 0 THEN { <<>> }
    ELSE { Append(t, c) : t \in LineTextsOfLen(n - 1), c \in LineChars }
LineTexts == UNION { LineTextsOfLen(n) : n \in 0..MaxLineLen }

RECURSIVE SumAdvances(_)
SumAdvances(gs) == IF gs = <<>> THEN 0 ELSE Head(gs).advance + SumAdvances(Tail(gs))

LineOf(t) ==
    NewLine(ShapeGlyphs(t, 0), SumAdvances(ShapeGlyphs(t, 0)), ShapedTextOf(t), 0, ByteLen(t))

JustifierLines == { LineOf(t) : t \in LineTexts }
FollowingLines == { LineOf(<<"a", " ", "a">>), LineOf(<<"W">>), LineOf(<<>>) }
JustifierLineLists ==
    { <<>> } \cup { <<l>> : l \in JustifierLines }
             \cup { <<l, m>> : l \in JustifierLines, m \in FollowingLines }
             \cup { <<m, l>> : l \in JustifierLines, m \in FollowingLines }
             \cup { <<m, l, n>> : l \in JustifierLines, m \in FollowingLines,
                                  n \in FollowingLines }
JustifierTargets == {36, 60, 72}

(***************************************************************************)
(* text_layout: ParagraphLayout.                                           *)
(***************************************************************************)
\* ParagraphLayout::validate_inputs: "ok" or the error.
ValidateInputs(t, opts) ==
    IF t = <<>> THEN "InvalidText"
    ELSE IF opts.max_width <= 0 THEN "InvalidOptions"
    ELSE IF opts.line_spacing <= 0 THEN "InvalidOptions"
    ELSE "ok"

\* position_lines_vertically stepping by the line height alone.
RECURSIVE PositionLinesUnspaced(_, _, _)
PositionLinesUnspaced(ls, opts, y_offset) ==
    IF ls = <<>> THEN <<>>
    ELSE <<[Head(ls) EXCEPT !.y_offset = y_offset]>>
         \o PositionLinesUnspaced(Tail(ls), opts, y_offset + Head(ls).height)

\* ParagraphLayout::position_lines_vertically; line_spacing is in fifths.
RECURSIVE PositionLinesVertically(_, _, _)
PositionLinesVertically(ls, opts, y_offset) ==
    IF ls = <<>> THEN <<>>
    ELSE <<[Head(ls) EXCEPT !.y_offset = y_offset]>>
         \o PositionLinesVertically(Tail(ls), opts,
                                    y_offset + (Head(ls).height * opts.line_spacing) \div 5)

RECURSIVE MaxRight(_, _)
MaxRight(ls, acc) ==
    IF ls = <<>> THEN acc
    ELSE LET r == Head(ls).width + Head(ls).x_offset
         IN  MaxRight(Tail(ls), IF r > acc THEN r ELSE acc)

\* layout_paragraph after break_into_lines: justification, vertical
\* positions, total dimensions, overflow.
LayoutResultOf(ls, opts) ==
    LET justified == JustifyLines(ls, opts.max_width, opts.justification)
        placed == PositionLinesVertically(justified, opts, 0)
        total_height == IF placed = <<>> THEN 0
                        ELSE placed[Len(placed)].y_offset + placed[Len(placed)].height
    IN  [ok |-> TRUE, lines |-> placed,
         total_height |-> total_height,
         total_width |-> MaxRight(placed, 0),
         overflow |-> IF opts.max_height # <<>> THEN total_height > opts.max_height[1]
                      ELSE FALSE]

\* The texts laid out and the options they are laid out with.
RECURSIVE TextsOfLen(_)
TextsOfLen(n) ==
    IF n = 0 THEN { <<>> }
    ELSE { Append(t, c) : t \in TextsOfLen(n - 1), c \in Chars }
Texts == UNION { TextsOfLen(n) : n \in 0..MaxTextLen }

MaxWidths == {12, 24, 60}
LayoutOptionsSet ==
    [max_width : MaxWidths, max_height : { <<>> }, justification : JustificationModes,
     line_spacing : {6}]
    \cup { [max_width |-> 0, max_height |-> <<>>, justification |-> "Left", line_spacing |-> 6],
           [max_width |-> 24, max_height |-> <<>>, justification |-> "Left", line_spacing |-> 0] }

NoFit == [seen |-> FALSE]
NoResult == [ok |-> FALSE, err |-> "none"]

\* The layout engine while another component runs.
LayoutIdle ==
    /\ text = <<>>
    /\ shaped_text = EmptyShapedText
    /\ options = [max_width |-> 0, max_height |-> <<>>, justification |-> "Left",
                  line_spacing |-> 0]
    /\ breaks = <<>>
    /\ lines = <<>>
    /\ current_line_glyphs = <<>>
    /\ current_width = 0
    /\ line_start_char = 0
    /\ char_index = 0
    /\ last_fit = NoFit
    /\ layout_result = NoResult
    /\ lay_pc = "idle"

(***************************************************************************)
(* font_parser: containers.  A container is given by its length in bytes   *)
(* and by the fields its bytes hold; a field past the end of the bytes is  *)
(* one the cursor cannot read.  Offsets and lengths stay far below 2^32,   *)
(* where the u32 sum of reconstruct_sfnt cannot wrap.                      *)
(***************************************************************************)
TrueTypeVersion == 65536        \* 0x00010000
OttoVersion == 1330926671       \* 0x4F54544F
WoffSignature == 2001684038     \* 0x774F4646
Woff2Signature == 2001684018    \* 0x774F4632

SfntHeaderLen == 12
SfntEntryLen == 16
WoffHeaderLen == 44
WoffEntryLen == 20
Woff2HeaderLen == 48

Tags == {"head", "glyf"}

RECURSIVE SeqsOfLen(_, _)
SeqsOfLen(S, n) ==
    IF n = 0 THEN { <<>> }
    ELSE { Append(q, e) : q \in SeqsOfLen(S, n - 1), e \in S }
SeqsUpTo(S, n) == UNION { SeqsOfLen(S, k) : k \in 0..n }

\* The table records a directory can hold: inside the data, straddling its
\* end, and past its end.
SfntEntries == [tag : Tags, offset : {0, 28, 60}, length : {0, 16}]

\* sfnt containers: version, numTables and the directory the bytes spell out.
SfntContainers(lens, versions, n) ==
    { [signature |-> v, len |-> l, num_tables |-> Len(d), dir |-> d] :
          v \in versions, l \in lens, d \in SeqsUpTo(SfntEntries, n) }

\* WOFF table entries; inflates says whether zlib yields orig_length bytes.
WoffEntries ==
    { e \in [tag : Tags, offset : {64, 84}, comp_length : {4, 16}, orig_length : {4, 16},
             inflates : BOOLEAN] :
          e.comp_length >= e.orig_length => e.inflates }

\* The metadata block of a WOFF or WOFF2 header.
MetaBlocks ==
    { [meta_offset |-> 0, meta_length |-> 0, inflates |-> TRUE],
      [meta_offset |-> 64, meta_length |-> 4, inflates |-> TRUE],
      [meta_offset |-> 64, meta_length |-> 4, inflates |-> FALSE],
      [meta_offset |-> 200, meta_length |-> 4, inflates |-> TRUE] }

WoffContainers ==
    { [signature |-> WoffSignature, len |-> l, flavor |-> f, num_tables |-> Len(d),
       dir |-> d, meta |-> m] :
          l \in {12, 44, 68, 84, 100}, f \in {TrueTypeVersion, 0},
          d \in SeqsUpTo({ e \in WoffEntries : e.tag = "head" }, MaxTables),
          m \in MetaBlocks }

\* WOFF2 containers; brotli is <<>> when the block does not decompress and
\* <<c>> when it decompresses to the bytes of the container c.  An empty
\* block does not decompress.
Woff2Blocks == { <<>> } \cup { <<c>> : c \in SfntContainers({2, 8, 28}, {TrueTypeVersion, 0}, 1) }
Woff2Containers ==
    { c \in [signature : {Woff2Signature}, len : {12, 48, 80},
             total_compressed_size : {0, 16, 64}, brotli : Woff2Blocks,
             meta : { k \in MetaBlocks : k.inflates }] :
          c.total_compressed_size = 0 => c.brotli = <<>> }

Containers ==
    SfntContainers({8, 12, 28, 44}, {TrueTypeVersion, OttoVersion, 0}, MaxTables)
    \cup WoffContainers \cup Woff2Containers

\* What a parser operation comes to.
Failed(kind) == [kind |-> "err", err |-> kind]
Panicked == [kind |-> "panic"]
Nothing == [kind |-> "none"]

\* The HashMap<Tag, TableRecord> built by inserting the entries in order.
RECURSIVE TableMap(_, _)
TableMap(dir, acc) ==
    IF dir = <<>> THEN acc
    ELSE LET e == Head(dir)
             rec == [offset |-> e.offset, length |-> e.length]
         IN  TableMap(Tail(dir),
                      [t \in DOMAIN acc \cup {e.tag} |-> IF t = e.tag THEN rec ELSE acc[t]])

\* OpenTypeFont::parse from the sfnt version on, over data of data_len bytes.
ParseSfnt(data_len, version, num_tables, dir) ==
    IF data_len < 4 THEN Failed("CorruptedData")
    ELSE IF version # TrueTypeVersion /\ version # OttoVersion THEN Failed("InvalidFormat")
    ELSE IF data_len < SfntHeaderLen THEN Failed("CorruptedData")
    ELSE IF SfntHeaderLen + SfntEntryLen * num_tables > data_len THEN Failed("CorruptedData")
    ELSE [kind |-> "ok", data_len |-> data_len, tables |-> TableMap(dir, <<>>)]

Pad4(n) == ((n + 3) \div 4) * 4

\* The second loop of WoffFont::reconstruct_sfnt from table i on: "ok", the
\* error, or "panic".
RECURSIVE DecompressTables(_, _)
DecompressTables(c, i) ==
    IF i > Len(c.dir) THEN "ok"
    ELSE LET table == c.dir[i]
         IN  IF table.offset + table.comp_length > c.len THEN "panic"
             ELSE IF table.comp_length < table.orig_length /\ ~table.inflates
             THEN "CorruptedData"
             ELSE IF table.comp_length > table.orig_length THEN "CorruptedData"
             ELSE DecompressTables(c, i + 1)

\* The directory of reconstruct_sfnt with each table placed right after the
\* unpadded end of the one before.
RECURSIVE ReconstructedDirUnpadded(_, _)
ReconstructedDirUnpadded(dir, offset) ==
    IF dir = <<>> THEN <<>>
    ELSE <<[tag |-> Head(dir).tag, offset |-> offset, length |-> Head(dir).orig_length]>>
         \o ReconstructedDirUnpadded(Tail(dir), offset + Head(dir).orig_length)

\* The directory WoffFont::reconstruct_sfnt writes: each table follows the
\* padded end of the one before.
RECURSIVE ReconstructedDir(_, _)
ReconstructedDir(dir, offset) ==
    IF dir = <<>> THEN <<>>
    ELSE <<[tag |-> Head(dir).tag, offset |-> offset, length |-> Head(dir).orig_length]>>
         \o ReconstructedDir(Tail(dir), Pad4(offset + Head(dir).orig_length))

RECURSIVE PaddedLen(_)
PaddedLen(dir) ==
    IF dir = <<>> THEN 0 ELSE Pad4(Head(dir).orig_length) + PaddedLen(Tail(dir))

\* The second loop of reconstruct_sfnt: where the bytes of each table land
\* in the sfnt, which holds sfnt_len bytes when the table is reached.  The
\* decompressed bytes are orig_length long, and zero bytes are pushed until
\* the length is a multiple of 4.
RECURSIVE WriteTables(_, _)
WriteTables(dir, sfnt_len) ==
    IF dir = <<>> THEN <<>>
    ELSE LET written == sfnt_len + Head(dir).orig_length
             padding == (4 - (written % 4)) % 4
         IN  <<[start |-> sfnt_len, end |-> written]>>
             \o WriteTables(Tail(dir), written + padding)

\* extract_metadata of woff.rs and woff2.rs: "ok", the error, or "panic".
ExtractMetadata(c) ==
    IF ~(c.meta.meta_offset > 0 /\ c.meta.meta_length > 0) THEN "ok"
    ELSE IF c.meta.meta_offset + c.meta.meta_length > c.len THEN "panic"
    ELSE IF ~c.meta.inflates THEN "CorruptedData"
    ELSE "ok"

\* WoffFont::parse and the parse of the sfnt it rebuilt.
ParseWoff(c) ==
    IF c.len < WoffHeaderLen THEN Failed("CorruptedData")
    ELSE IF WoffHeaderLen + WoffEntryLen * c.num_tables > c.len THEN Failed("CorruptedData")
    ELSE LET tables == DecompressTables(c, 1)
             meta == ExtractMetadata(c)
             first == SfntHeaderLen + SfntEntryLen * c.num_tables
         IN  IF tables = "panic" THEN Panicked
             ELSE IF tables # "ok" THEN Failed(tables)
             ELSE IF meta = "panic" THEN Panicked
             ELSE IF meta # "ok" THEN Failed(meta)
             ELSE ParseSfnt(first + PaddedLen(c.dir), c.flavor, c.num_tables,
                            ReconstructedDir(c.dir, first))

\* Woff2Font::parse and the parse of the data it decompressed.
ParseWoff2(c) ==
    IF c.len < Woff2HeaderLen THEN Failed("CorruptedData")
    ELSE IF Woff2HeaderLen + c.total_compressed_size > c.len THEN Panicked
    ELSE IF c.brotli = <<>> THEN Failed("CorruptedData")
    ELSE LET meta == ExtractMetadata(c)
             sfnt == c.brotli[1]
         IN  IF meta = "panic" THEN Panicked
             ELSE IF meta # "ok" THEN Failed(meta)
             ELSE ParseSfnt(sfnt.len, sfnt.signature, sfnt.num_tables, sfnt.dir)

\* OpenTypeFont::parse
ParseFont(c) ==
    IF c.len < SfntHeaderLen THEN Failed("CorruptedData")
    ELSE IF c.signature = WoffSignature THEN ParseWoff(c)
    ELSE IF c.signature = Woff2Signature THEN ParseWoff2(c)
    ELSE ParseSfnt(c.len, c.signature, c.num_tables, c.dir)

\* OpenTypeFont::get_table
GetTableOf(font, tag) ==
    IF tag \notin DOMAIN font.tables THEN [kind |-> "None"]
    ELSE LET start == font.tables[tag].offset
             end == start + font.tables[tag].length
         IN  IF end > font.data_len THEN Panicked
             ELSE [kind |-> "Some", start |-> start, end |-> end]

(***************************************************************************)
(* font_parser: the fvar and avar decoders.  A table is given by its       *)
(* length in bytes and by the fields its bytes hold; a read past the end   *)
(* of the bytes fails.                                                     *)
(***************************************************************************)
FvarHeaderLen == 16
FvarAxisLen == 20
AvarHeaderLen == 8

FvarTables ==
    [kind : {"fvar"}, len : {3, 4, 16, 36, 56, 64}, major_version : {0, 1, 2},
     minor_version : {0, 1}, axes_array_offset : {16}, axis_count : {0, 1, 2},
     axis_size : {20, 24}, instance_count : {0, 1}, instance_size : {0, 8, 14}]

AvarTables ==
    { [kind |-> "avar", len |-> l, major_version |-> ma, minor_version |-> mi,
       axis_count |-> Len(counts), position_map_counts |-> counts] :
          l \in {3, 8, 10, 18, 26}, ma \in {0, 1, 2}, mi \in {0, 1},
          counts \in SeqsUpTo({0, 2}, 2) }

\* The axis records of FvarTable::parse from the cursor position pos on:
\* the position after the last one, or -1 when a read fails.
RECURSIVE ReadAxes(_, _, _)
ReadAxes(t, todo, pos) ==
    IF todo = 0 THEN pos
    ELSE IF pos + FvarAxisLen > t.len THEN -1
    ELSE ReadAxes(t, todo - 1,
                  IF t.axis_size > FvarAxisLen THEN pos + t.axis_size
                  ELSE pos + FvarAxisLen)

\* The named instances of FvarTable::parse from pos on.
RECURSIVE ReadInstances(_, _, _)
ReadInstances(t, todo, pos) ==
    IF todo = 0 THEN pos
    ELSE LET base_size == 4 + t.axis_count * 4
             has_postscript_name_id == t.instance_size > base_size
             expected_size == IF has_postscript_name_id THEN base_size + 2 ELSE base_size
         IN  IF pos + expected_size > t.len THEN -1
             ELSE ReadInstances(t, todo - 1,
                                IF t.instance_size > expected_size
                                THEN pos + t.instance_size
                                ELSE pos + expected_size)

\* FvarTable::parse
FvarParse(t) ==
    IF t.len < 4 THEN Failed("CorruptedData")
    ELSE IF t.major_version # 1 \/ t.minor_version # 0 THEN Failed("CorruptedData")
    ELSE IF t.len < FvarHeaderLen THEN Failed("CorruptedData")
    ELSE LET after_axes == ReadAxes(t, t.axis_count, t.axes_array_offset)
         IN  IF after_axes < 0 THEN Failed("CorruptedData")
             ELSE IF ReadInstances(t, t.instance_count, after_axes) < 0
             THEN Failed("CorruptedData")
             ELSE [kind |-> "ok", axes |-> t.axis_count, instances |-> t.instance_count]

\* The segment maps of AvarTable::parse from pos on: each is a count and
\* that many pairs of Fixed values.
RECURSIVE ReadSegmentMaps(_, _, _)
ReadSegmentMaps(t, i, pos) ==
    IF i > t.axis_count THEN pos
    ELSE IF pos + 2 > t.len THEN -1
    ELSE IF pos + 2 + 8 * t.position_map_counts[i] > t.len THEN -1
    ELSE ReadSegmentMaps(t, i + 1, pos + 2 + 8 * t.position_map_counts[i])

\* AvarTable::parse(data, axis_count)
AvarParse(t, axis_count) ==
    IF t.len < 4 THEN Failed("CorruptedData")
    ELSE IF t.major_version # 1 \/ t.minor_version # 0 THEN Failed("CorruptedData")
    ELSE IF t.len < AvarHeaderLen THEN Failed("CorruptedData")
    ELSE IF t.axis_count # axis_count THEN Failed("CorruptedData")
    ELSE IF ReadSegmentMaps(t, 1, AvarHeaderLen) < 0 THEN Failed("CorruptedData")
    ELSE [kind |-> "ok", axis_segment_maps |-> t.position_map_counts]

(***************************************************************************)
(* font_parser: VariationCoordinates.                                      *)
(***************************************************************************)
AxisTags == {"wght", "wdth", "slnt"}
AxisValues == {100, 400}

\* The index of the first entry of values with the tag, 0 when there is none.
FindAxis(values, tag) ==
    IF \E i \in DOMAIN values : values[i].tag = tag
    THEN CHOOSE i \in DOMAIN values :
             /\ values[i].tag = tag
             /\ \A j \in DOMAIN values : values[j].tag = tag => i <= j
    ELSE 0

\* set_axis pushing an entry whether or not the tag is present.
SetAxisAlwaysPushes(values, tag, value) ==
    Append(values, [tag |-> tag, value |-> value])

\* VariationCoordinates::set_axis
SetAxisOf(values, tag, value) ==
    IF FindAxis(values, tag) # 0
    THEN [values EXCEPT ![FindAxis(values, tag)].value = value]
    ELSE Append(values, [tag |-> tag, value |-> value])

\* VariationCoordinates::get_axis
GetAxisOf(values, tag) ==
    IF FindAxis(values, tag) # 0
    THEN [kind |-> "Some", value |-> values[FindAxis(values, tag)].value]
    ELSE [kind |-> "None"]

NoTable == [kind |-> "none", len |-> 0]

\* The variable-font code while another component runs.
VariationIdle ==
    /\ table_data = NoTable
    /\ decoded = Nothing
    /\ coords = <<>>
    /\ coords_call = [n |-> 0]
    /\ last_set = <<>>

\* The parser while another component runs.
ParserIdle ==
    /\ container = [signature |-> 0, len |-> 0, num_tables |-> 0, dir |-> <<>>]
    /\ parse_result = Nothing
    /\ table_result = Nothing
    /\ par_pc = "idle"
    /\ VariationIdle

(***************************************************************************)
(* text_shaper: options, cache keys, shaping.  Sizes are in 1/20 px.       *)
(***************************************************************************)
\* The OpenType feature entries an options value can hold; "x" is a tag that
\* is not four bytes long.
FeatureTags == {"kern", "liga", "x"}
TagRank(tag) == CASE tag = "kern" -> 1 [] tag = "liga" -> 2 [] tag = "x" -> 3

\* ShapingOptions.features as the HashMap yields it: the same map can be
\* iterated in either order.
FeatureLists ==
    { <<>>,
      <<[tag |-> "x", value |-> 1]>>,
      <<[tag |-> "kern", value |-> 1], [tag |-> "liga", value |-> 0]>>,
      <<[tag |-> "liga", value |-> 0], [tag |-> "kern", value |-> 1]>> }

\* The ShapingOptions of the calls.
ShapingOptionsSet ==
    [script : {"Latin"}, language : {"en"}, direction : {"LeftToRight"},
     features : FeatureLists, kerning : {TRUE}, ligatures : {TRUE},
     letter_spacing : {0}, word_spacing : {0}]
    \cup [script : {"Latin"}, language : {"en"}, direction : {"LeftToRight"},
          features : { <<>> }, kerning : {TRUE}, ligatures : {TRUE},
          letter_spacing : {20}, word_spacing : {0}]

\* The features left in the order the map yields them.
SortByTagKeepsOrder(fs) == fs

\* features.sort_by_key(|(k, _)| *k): insertion of each entry at its rank.
RECURSIVE SortByTag(_)
SortByTag(fs) ==
    IF fs = <<>> THEN <<>>
    ELSE LET rest == SortByTag(Tail(fs))
             before == { i \in 1..Len(rest) : TagRank(rest[i].tag) <= TagRank(Head(fs).tag) }
         IN  SubSeq(rest, 1, Cardinality(before)) \o <<Head(fs)>>
             \o SubSeq(rest, Cardinality(before) + 1, Len(rest))

\* A slip in the Hash of ShapingOptions: the features are fed in the order
\* the map yields them.
OptionsHashUnsorted(o) ==
    <<o.script, o.language, o.direction, o.features, o.kerning, o.ligatures,
      o.letter_spacing, o.word_spacing>>

\* impl Hash for ShapingOptions: what is fed to the hasher, in order.  Two
\* options get the same hash when the same values are fed.
OptionsHash(o) ==
    <<o.script, o.language, o.direction, SortByTag(o.features), o.kerning, o.ligatures,
      o.letter_spacing, o.word_spacing>>

\* ShapingCacheKey::new; (size * 10.0) as u32 truncates.
ShapingCacheKey(t, font_id, size, o) ==
    [text |-> t, font_id |-> font_id, size_fixed |-> size \div 2,
     options_hash |-> OptionsHash(o)]

\* The faces of the registry the shaper borrows: face 0 holds its data, face
\* 1 is a system font whose data is not loaded, and no other id is known.
ShaperFaces == {0, 1}
FaceData(font_id) == IF font_id = 0 THEN <<"data">> ELSE <<>>
FontIdsAsked == {0, 1, 2}

\* The conversion loop of shape_text.  The engine's values are 26.6 fixed
\* point (1/64 px), letter_spacing is in 1/20 px, and the glyphs are given
\* in 1/320 px, in which both are whole numbers: value / 64.0 is 5 * value
\* and letter_spacing is 16 * letter_spacing.

\* The loop with the offset added to the cursor as well.
RECURSIVE ConvertGlyphsCarryingOffset(_, _, _, _)
ConvertGlyphsCarryingOffset(ps, letter_spacing, cursor_x, cursor_y) ==
    IF ps = <<>> THEN <<>>
    ELSE LET pos == Head(ps)
             adjusted_x_advance == 5 * pos.x_advance + 16 * letter_spacing
         IN  <<[glyph_id |-> pos.codepoint,
                position |-> [x |-> cursor_x + 5 * pos.x_offset,
                              y |-> cursor_y + 5 * pos.y_offset],
                advance |-> [x |-> adjusted_x_advance, y |-> 5 * pos.y_advance],
                offset |-> [x |-> 5 * pos.x_offset, y |-> 5 * pos.y_offset]]>>
             \o ConvertGlyphsCarryingOffset(Tail(ps), letter_spacing,
                     cursor_x + adjusted_x_advance + 5 * pos.x_offset,
                     cursor_y + 5 * pos.y_advance + 5 * pos.y_offset)

\* for (info, pos) in infos.iter().zip(positions.iter()) { ... }
RECURSIVE ConvertGlyphs(_, _, _, _)
ConvertGlyphs(ps, letter_spacing, cursor_x, cursor_y) ==
    IF ps = <<>> THEN <<>>
    ELSE LET pos == Head(ps)
             x_advance == 5 * pos.x_advance
             y_advance == 5 * pos.y_advance
             x_offset == 5 * pos.x_offset
             y_offset == 5 * pos.y_offset
             adjusted_x_advance == x_advance + 16 * letter_spacing
         IN  <<[glyph_id |-> pos.codepoint,
                position |-> [x |-> cursor_x + x_offset, y |-> cursor_y + y_offset],
                advance |-> [x |-> adjusted_x_advance, y |-> y_advance],
                offset |-> [x |-> x_offset, y |-> y_offset]]>>
             \o ConvertGlyphs(Tail(ps), letter_spacing,
                              cursor_x + adjusted_x_advance, cursor_y + y_advance)

\* total_width with the spacing after the last glyph taken off.
RECURSIVE TotalWidthTrimmed(_, _, _)
TotalWidthTrimmed(ps, letter_spacing, cursor_x) ==
    IF ps = <<>> THEN cursor_x
    ELSE IF Tail(ps) = <<>> THEN cursor_x + 5 * Head(ps).x_advance
    ELSE TotalWidthTrimmed(Tail(ps), letter_spacing,
                           cursor_x + 5 * Head(ps).x_advance + 16 * letter_spacing)

\* total_width = cursor_x after the last iteration; 0.0 without glyphs.
RECURSIVE TotalWidth(_, _, _)
TotalWidth(ps, letter_spacing, cursor_x) ==
    IF ps = <<>> THEN cursor_x
    ELSE TotalWidth(Tail(ps), letter_spacing,
                    cursor_x + 5 * Head(ps).x_advance + 16 * letter_spacing)

\* The glyphs and the width shape_text makes of an engine output.
ConvertOutput(ps, letter_spacing) ==
    [done |-> TRUE,
     glyphs |-> ConvertGlyphs(ps, letter_spacing, 0, 0),
     width |-> TotalWidth(ps, letter_spacing, 0)]

\* harfbuzz_rs::shape for the face that has data: one glyph per character,
\* advances proportional to the size, no offsets.
HbShape(t, size) ==
    IF t = "hi"
    THEN <<[codepoint |-> 75, x_advance |-> (176 * size) \div 100, y_advance |-> 0,
            x_offset |-> 0, y_offset |-> 0],
           [codepoint |-> 76, x_advance |-> (80 * size) \div 100, y_advance |-> 0,
            x_offset |-> 0, y_offset |-> 0]>>
    ELSE <<>>

\* The metrics of the face that has data.
FaceAscent == 800
FaceDescent == -200
FaceUnitsPerEm == 1000

\* What the engine is given and so what the ShapedText is a function of: the
\* text, the face, the size, the buffer properties, the features with a
\* four-byte tag, and the letter spacing; and the glyphs and width the
\* conversion loop makes of the engine's output.
ShapeWithEngine(t, font_id, size, o) ==
    [text |-> t, font_id |-> font_id, size |-> size, script |-> o.script,
     language |-> o.language, direction |-> o.direction,
     features |-> { o.features[i] : i \in { j \in 1..Len(o.features) :
                                               o.features[j].tag # "x" } },
     letter_spacing |-> o.letter_spacing,
     glyphs |-> ConvertGlyphs(HbShape(t, size), o.letter_spacing, 0, 0),
     width |-> TotalWidth(HbShape(t, size), o.letter_spacing, 0),
     height |-> ((FaceAscent - FaceDescent) * size) \div FaceUnitsPerEm,
     baseline |-> (FaceAscent * size) \div FaceUnitsPerEm]

\* ShapedText { glyphs: Vec::new(), width: 0.0, height: 0.0, baseline: 0.0 }
EmptyShaped == [glyphs |-> <<>>, width |-> 0, height |-> 0, baseline |-> 0]

\* The outputs of the engine the conversion loop is applied to.
EnginePositions ==
    { [codepoint |-> 75, x_advance |-> 640, y_advance |-> 0, x_offset |-> 0, y_offset |-> 0],
      [codepoint |-> 76, x_advance |-> 640, y_advance |-> 0, x_offset |-> -32, y_offset |-> 16],
      [codepoint |-> 77, x_advance |-> 0, y_advance |-> 0, x_offset |-> -32, y_offset |-> 16],
      [codepoint |-> 78, x_advance |-> 0, y_advance |-> 64, x_offset |-> 0, y_offset |-> 0],
      [codepoint |-> 79, x_advance |-> 320, y_advance |-> 64, x_offset |-> 48, y_offset |-> 0] }
RECURSIVE EngineOutputsOfLen(_)
EngineOutputsOfLen(n) ==
    IF n = 0 THEN { <<>> }
    ELSE { Append(ps, pos) : ps \in EngineOutputsOfLen(n - 1), pos \in EnginePositions }
EngineOutputs == UNION { EngineOutputsOfLen(n) : n \in 0..MaxGlyphs }
LetterSpacings == {-10, 0, 20}
NotConverted == [done |-> FALSE]

ShapeTexts == {"", "hi"}
ShapeSizes == {320, 321}

ShapingCacheGetIndex(es, key) ==
    IF \E i \in 1..Len(es) : es[i].key = key
    THEN CHOOSE i \in 1..Len(es) : es[i].key = key
    ELSE 0

\* shape_text without its early return for empty text.
TextIsEmptyNever(t) == FALSE

\* text.is_empty()
TextIsEmpty(t) == t = ""

\* TextShaper::shape_text.  The value is the cache entries and statistics
\* after the call and the Result returned.
ShapeText(cfg, es, st, t, font_id, size, o) ==
    LET key == ShapingCacheKey(t, font_id, size, o)
        i == ShapingCacheGetIndex(es, key)
        missed == IF cfg.enable_statistics THEN [st EXCEPT !.misses = @ + 1] ELSE st
        shaped == ShapeWithEngine(t, font_id, size, o)
        e == [key |-> key, value |-> shaped]
    IN  IF TextIsEmpty(t)
        THEN [entries |-> es, stats |-> st, result |-> [ok |-> TRUE, shaped |-> EmptyShaped]]
        ELSE IF cfg.enable_statistics /\ i # 0
        THEN [entries |-> Append(SubSeq(es, 1, i - 1) \o SubSeq(es, i + 1, Len(es)), es[i]),
              stats |-> [st EXCEPT !.hits = @ + 1],
              result |-> [ok |-> TRUE, shaped |-> es[i].value]]
        ELSE IF font_id \notin ShaperFaces \/ FaceData(font_id) = <<>>
        THEN [entries |-> es, stats |-> missed,
              result |-> [ok |-> FALSE, err |-> "FontNotFound"]]
        ELSE IF ~cfg.enable_statistics
        THEN [entries |-> es, stats |-> st, result |-> [ok |-> TRUE, shaped |-> shaped]]
        ELSE IF Len(es) >= cfg.max_entries
        THEN [entries |-> Append(Tail(es), e),
              stats |-> [missed EXCEPT !.evictions = @ + 1],
              result |-> [ok |-> TRUE, shaped |-> shaped]]
        ELSE [entries |-> Append(es, e), stats |-> missed,
              result |-> [ok |-> TRUE, shaped |-> shaped]]

\* The shaper while another component runs.
ShaperIdle ==
    /\ shape_config = [max_entries |-> 1, enable_statistics |-> FALSE]
    /\ shape_entries = <<>>
    /\ shape_stats = [hits |-> 0, misses |-> 0, evictions |-> 0]
    /\ shape_call = [n |-> 0]
    /\ hb_output = <<>>
    /\ hb_spacing = 0
    /\ hb_shaped = NotConverted

(***************************************************************************)
(* glyph_renderer: keys, bitmaps, fonts.                                   *)
(***************************************************************************)
GlyphIds == {0, 1}
RenderModes == {"Mono", "Gray"}
\* Fonts handed to rasterize_glyph: font 0 is OpenTypeFont::new_stub() (no
\* data), the others carry data.
StubFont == 0
Fonts == {0, 1, 2}
\* Requested sizes, in 1/128 px: 16 + 1/128 px and 16 + 1/64 px.
Sizes == {2049, 2050}
\* The (max_entries, max_memory_bytes) pairs the cache is constructed with.
CacheConfigs ==
    { [max_entries |-> 1, max_memory_bytes |-> 1],
      [max_entries |-> 2, max_memory_bytes |-> 6],
      [max_entries |-> 3, max_memory_bytes |-> 3],
      [max_entries |-> 4, max_memory_bytes |-> 5] }

\* (size * 64.0) as u32: the cast truncates toward zero and saturates at 0.
SizeFixed(size) == IF size < 0 THEN 0 ELSE size \div 2

\* struct CacheKey { glyph_id, size, mode }
CacheKey(font, glyph_id, size, mode) ==
    [glyph_id |-> glyph_id, size |-> SizeFixed(size), mode |-> mode]

\* A GlyphBitmap: the length of its data, and what it was rasterized from.
Bitmap(font, glyph_id, size, mode, len) ==
    [face |-> font, glyph_id |-> glyph_id, size |-> SizeFixed(size),
     mode |-> mode, len |-> len]

\* The keys put into the cache directly: four distinct keys at one size.
Keys == {CacheKey(1, g, 2050, m) : g \in GlyphIds, m \in RenderModes}

\* Every key a call can name.
AllKeys == {CacheKey(f, g, s, m) : f \in Fonts, g \in GlyphIds, s \in Sizes, m \in RenderModes}
Used(at, by) == [at |-> at, by |-> by]
NeverUsed == [k \in AllKeys |-> Used(0, "none")]

RECURSIVE SumLen(_)
SumLen(es) == IF es = <<>> THEN 0 ELSE Head(es).bitmap.len + SumLen(Tail(es))

IndexOf(es, key) ==
    IF \E i \in 1..Len(es) : es[i].key = key
    THEN CHOOSE i \in 1..Len(es) : es[i].key = key
    ELSE 0

RemoveAt(es, i) == SubSeq(es, 1, i - 1) \o SubSeq(es, i + 1, Len(es))

(***************************************************************************)
(* lru::LruCache, as used by GlyphCache.                                   *)
(***************************************************************************)
\* A slip in LruCache::get: the key found keeps its place in the order.
LruGetKeepsOrder(es, key) == es

\* LruCache::get: a present key becomes the most recently used.
LruGet(es, key) ==
    LET i == IndexOf(es, key)
    IN  IF i = 0 THEN es ELSE Append(RemoveAt(es, i), es[i])

\* LruCache::push: returns the entry it displaced, if any. A present key has
\* its value replaced (the old pair is returned); otherwise, at capacity, the
\* least recently used entry is removed and returned.
LruPush(es, key, bitmap, cap) ==
    LET i == IndexOf(es, key)
        e == [key |-> key, bitmap |-> bitmap]
    IN  IF i # 0
        THEN [entries |-> Append(RemoveAt(es, i), e), old |-> <<es[i]>>]
        ELSE IF Len(es) >= cap
        THEN [entries |-> Append(Tail(es), e), old |-> <<Head(es)>>]
        ELSE [entries |-> Append(es, e), old |-> <<>>]

(***************************************************************************)
(* GlyphCache.  A cache value c is [entries, memory_bytes, stats].         *)
(***************************************************************************)
ThisCache == [entries |-> entries, memory_bytes |-> memory_bytes, stats |-> stats]

\* A slip in GlyphCache::get: a found key is counted as a miss as well.
CacheGetCountsBoth(c, key) ==
    IF IndexOf(c.entries, key) # 0
    THEN [cache |-> [c EXCEPT !.entries = LruGet(c.entries, key),
                              !.stats.hits = @ + 1, !.stats.misses = @ + 1],
          found |-> <<c.entries[IndexOf(c.entries, key)].bitmap>>]
    ELSE [cache |-> [c EXCEPT !.stats.misses = @ + 1], found |-> <<>>]

\* GlyphCache::get
CacheGet(c, key) ==
    IF IndexOf(c.entries, key) # 0
    THEN [cache |-> [c EXCEPT !.entries = LruGet(c.entries, key),
                              !.stats.hits = @ + 1],
          found |-> <<c.entries[IndexOf(c.entries, key)].bitmap>>]
    ELSE [cache |-> [c EXCEPT !.stats.misses = @ + 1], found |-> <<>>]

\* A slip in evict_to_fit: it does not stop until the store is empty.
RECURSIVE EvictToFitEmpties(_, _, _)
EvictToFitEmpties(c, required_bytes, maxmem) ==
    IF c.entries # <<>>
    THEN EvictToFitEmpties(
             [c EXCEPT !.entries = Tail(@),
                       !.memory_bytes = @ - Head(c.entries).bitmap.len,
                       !.stats.evictions = @ + 1],
             required_bytes, maxmem)
    ELSE c

\* A slip in evict_to_fit: the popped bitmap's bytes stay in the counter.
RECURSIVE EvictToFitKeepsBytes(_, _, _)
EvictToFitKeepsBytes(c, required_bytes, maxmem) ==
    LET target_memory == IF maxmem >= required_bytes THEN maxmem - required_bytes ELSE 0
    IN  IF c.memory_bytes > target_memory /\ c.entries # <<>>
        THEN EvictToFitKeepsBytes(
                 [c EXCEPT !.entries = Tail(@),
                           !.stats.evictions = @ + 1],
                 required_bytes, maxmem)
        ELSE c

\* GlyphCache::evict_to_fit
RECURSIVE EvictToFit(_, _, _)
EvictToFit(c, required_bytes, maxmem) ==
    LET target_memory == IF maxmem >= required_bytes THEN maxmem - required_bytes ELSE 0
    IN  IF c.memory_bytes > target_memory /\ c.entries # <<>>
        THEN EvictToFit(
                 [c EXCEPT !.entries = Tail(@),
                           !.memory_bytes = @ - Head(c.entries).bitmap.len,
                           !.stats.evictions = @ + 1],
                 required_bytes, maxmem)
        ELSE c

\* A slip in insert: the entry that push displaces is not counted.
CacheInsertUncounted(c, key, bitmap, cap, maxmem) ==
    LET bitmap_size == bitmap.len
        c1 == IF c.memory_bytes + bitmap_size > maxmem
              THEN EvictToFit(c, bitmap_size, maxmem)
              ELSE c
        p  == LruPush(c1.entries, key, bitmap, cap)
        c2 == IF p.old # <<>>
              THEN [c1 EXCEPT !.entries = p.entries,
                              !.memory_bytes = @ - p.old[1].bitmap.len]
              ELSE [c1 EXCEPT !.entries = p.entries]
    IN  [c2 EXCEPT !.memory_bytes = @ + bitmap_size]

\* GlyphCache::insert
CacheInsert(c, key, bitmap, cap, maxmem) ==
    LET bitmap_size == bitmap.len
        c1 == IF c.memory_bytes + bitmap_size > maxmem
              THEN EvictToFit(c, bitmap_size, maxmem)
              ELSE c
        p  == LruPush(c1.entries, key, bitmap, cap)
        c2 == IF p.old # <<>>
              THEN [c1 EXCEPT !.entries = p.entries,
                              !.memory_bytes = @ - p.old[1].bitmap.len,
                              !.stats.evictions = @ + 1]
              ELSE [c1 EXCEPT !.entries = p.entries]
    IN  [c2 EXCEPT !.memory_bytes = @ + bitmap_size]

\* A slip in GlyphCache::clear: the statistics are reset with the store.
CacheClearResetsStats(c) ==
    [c EXCEPT !.entries = <<>>, !.memory_bytes = 0,
              !.stats = [hits |-> 0, misses |-> 0, evictions |-> 0]]

\* GlyphCache::clear
CacheClear(c) == [c EXCEPT !.entries = <<>>, !.memory_bytes = 0]

SetCache(c) ==
    /\ entries' = c.entries
    /\ memory_bytes' = c.memory_bytes
    /\ stats' = c.stats

NoCall == [op |-> "none"]

\* The glyph cache while another component runs.
CacheIdle ==
    /\ entries = <<>>
    /\ memory_bytes = 0
    /\ stats = [hits |-> 0, misses |-> 0, evictions |-> 0]
    /\ max_entries = 1
    /\ max_memory_bytes = 1
    /\ served = NoCall
    /\ last_use = NeverUsed
    /\ ops = 0

\* GlyphCache::new(max_entries, max_memory_bytes); max_entries = 0 panics in
\* NonZeroUsize::new(..).unwrap(), so no cache exists with it.
InitCache ==
    /\ RegistryIdle
    /\ LayoutIdle
    /\ ParserIdle
    /\ ShaperIdle
    /\ entries = <<>>
    /\ memory_bytes = 0
    /\ stats = [hits |-> 0, misses |-> 0, evictions |-> 0]
    /\ \E cfg \in CacheConfigs :
         /\ max_entries = cfg.max_entries
         /\ max_memory_bytes = cfg.max_memory_bytes
    /\ served = NoCall
    /\ last_use = NeverUsed
    /\ ops = 0

\* cache.get(&key)
Get ==
    /\ ops < MaxOps
    /\ \E key \in Keys :
         LET r == CacheGet(ThisCache, key)
         IN  /\ SetCache(r.cache)
             /\ served' = [op |-> "get", key |-> key, found |-> r.found]
             /\ last_use' = IF r.found # <<>>
                            THEN [last_use EXCEPT ![key] = Used(ops + 1, "get")]
                            ELSE last_use
    /\ ops' = ops + 1
    /\ UNCHANGED <<max_entries, max_memory_bytes, regVars, layVars, parVars, shpVars>>

\* cache.insert(key, bitmap), for a bitmap of any size
Insert ==
    /\ ops < MaxOps
    /\ \E key \in Keys, len \in 1..MaxBitmapLen :
         LET bitmap == [face |-> 1, glyph_id |-> key.glyph_id, size |-> key.size,
                        mode |-> key.mode, len |-> len]
         IN  /\ SetCache(CacheInsert(ThisCache, key, bitmap, max_entries, max_memory_bytes))
             /\ served' = [op |-> "insert", key |-> key, bitmap |-> bitmap]
             /\ last_use' = [last_use EXCEPT ![key] = Used(ops + 1, "put")]
    /\ ops' = ops + 1
    /\ UNCHANGED <<max_entries, max_memory_bytes, regVars, layVars, parVars, shpVars>>

\* cache.clear()
Clear ==
    /\ ops < MaxOps
    /\ SetCache(CacheClear(ThisCache))
    /\ served' = [op |-> "clear"]
    /\ UNCHANGED last_use
    /\ ops' = ops + 1
    /\ UNCHANGED <<max_entries, max_memory_bytes, regVars, layVars, parVars, shpVars>>

NextCache == Get \/ Insert \/ Clear

SpecCache == InitCache /\ [][NextCache]_vars

(***************************************************************************)
(* GlyphRenderer.                                                          *)
(***************************************************************************)
\* rasterize_with_freetype on a font with data: the length of the bitmap
\* FreeType renders for (font, glyph, size, mode).
RasterLen(font, glyph_id, size, mode) ==
    1 + ((font + glyph_id + SizeFixed(size)) % MaxBitmapLen)

\* rasterize_glyph looking at the font's data before it looks in the cache.
RasterizeGlyphCheckingFontFirst(c, font, glyph_id, size, mode, ft_ok, cap, maxmem) ==
    LET cache_key == CacheKey(font, glyph_id, size, mode)
        g == CacheGet(c, cache_key)
        bitmap == Bitmap(font, glyph_id, size, mode, RasterLen(font, glyph_id, size, mode))
    IN  IF font = StubFont
        THEN [cache |-> c, hit |-> FALSE, result |-> <<>>]
        ELSE IF g.found # <<>>
        THEN [cache |-> g.cache, hit |-> TRUE, result |-> g.found]
        ELSE IF ~ft_ok
        THEN [cache |-> g.cache, hit |-> FALSE, result |-> <<>>]
        ELSE [cache |-> CacheInsert(g.cache, cache_key, bitmap, cap, maxmem),
              hit |-> FALSE, result |-> <<bitmap>>]

\* GlyphRenderer::rasterize_glyph.  ft_ok is whether FreeType succeeds when
\* it is reached.  The value is [cache, result, hit].
RasterizeGlyph(c, font, glyph_id, size, mode, ft_ok, cap, maxmem) ==
    LET cache_key == CacheKey(font, glyph_id, size, mode)
        g == CacheGet(c, cache_key)
        bitmap == Bitmap(font, glyph_id, size, mode, RasterLen(font, glyph_id, size, mode))
    IN  IF g.found # <<>>
        THEN [cache |-> g.cache, hit |-> TRUE, result |-> g.found]
        ELSE IF font = StubFont
        THEN [cache |-> g.cache, hit |-> FALSE, result |-> <<>>]
        ELSE IF ~ft_ok
        THEN [cache |-> g.cache, hit |-> FALSE, result |-> <<>>]
        ELSE [cache |-> CacheInsert(g.cache, cache_key, bitmap, cap, maxmem),
              hit |-> FALSE, result |-> <<bitmap>>]

\* GlyphRenderer::with_config(config)
InitRenderer == InitCache

\* renderer.rasterize_glyph(&font, glyph_id, size, mode)
Rasterize ==
    /\ ops < MaxCalls
    /\ \E font \in Fonts, glyph_id \in GlyphIds, size \in Sizes, mode \in RenderModes,
          ft_ok \in BOOLEAN :
         LET r == RasterizeGlyph(ThisCache, font, glyph_id, size, mode, ft_ok,
                                 max_entries, max_memory_bytes)
         IN  /\ SetCache(r.cache)
             /\ served' = [op |-> "rasterize", font |-> font, glyph_id |-> glyph_id,
                           size |-> size, mode |-> mode, hit |-> r.hit,
                           result |-> r.result]
             /\ last_use' = IF r.result # <<>>
                            THEN [last_use EXCEPT ![CacheKey(font, glyph_id, size, mode)] =
                                      Used(ops + 1, IF r.hit THEN "get" ELSE "put")]
                            ELSE last_use
    /\ ops' = ops + 1
    /\ UNCHANGED <<max_entries, max_memory_bytes, regVars, layVars, parVars, shpVars>>

\* renderer.clear_cache()
ClearCache ==
    /\ ops < MaxCalls
    /\ SetCache(CacheClear(ThisCache))
    /\ served' = [op |-> "clear"]
    /\ UNCHANGED last_use
    /\ ops' = ops + 1
    /\ UNCHANGED <<max_entries, max_memory_bytes, regVars, layVars, parVars, shpVars>>

NextRenderer == Rasterize \/ ClearCache

SpecRenderer == InitRenderer /\ [][NextRenderer]_vars

(***************************************************************************)
(* FontRegistry: construction and calls.                                   *)
(***************************************************************************)
\* FontRegistry::new()
InitRegistry ==
    /\ RegistryIdle
    /\ CacheIdle
    /\ LayoutIdle
    /\ ParserIdle
    /\ ShaperIdle

\* registry.load_font_data(data)
LoadFontData ==
    /\ next_id < MaxFonts
    /\ \E file \in FontFiles :
         LET after == LoadFontDataOf(fonts, next_id, file)
         IN  /\ fonts' = after.fonts
             /\ next_id' = after.next_id
             /\ IF after.result.ok
                THEN /\ iter_order' \in IterationOrders(DOMAIN after.fonts)
                     /\ reg_call' = [op |-> "load_font_data", ok |-> TRUE,
                                     id |-> after.result.id]
                     /\ issued' = Append(issued, after.result.id)
                ELSE /\ reg_call' = [op |-> "load_font_data", ok |-> FALSE,
                                     err |-> after.result.err]
                     /\ UNCHANGED <<iter_order, issued>>
    /\ UNCHANGED <<cacheVars, layVars, parVars, shpVars>>

\* registry.load_font_file(path)
LoadFontFile ==
    /\ next_id < MaxFonts
    /\ \E path \in FontPaths :
         LET after == LoadFontFileOf(fonts, next_id, path)
         IN  /\ fonts' = after.fonts
             /\ next_id' = after.next_id
             /\ IF after.result.ok
                THEN /\ iter_order' \in IterationOrders(DOMAIN after.fonts)
                     /\ reg_call' = [op |-> "load_font_file", ok |-> TRUE,
                                     id |-> after.result.id]
                     /\ issued' = Append(issued, after.result.id)
                ELSE /\ reg_call' = [op |-> "load_font_file", ok |-> FALSE,
                                     err |-> after.result.err]
                     /\ UNCHANGED <<iter_order, issued>>
    /\ UNCHANGED <<cacheVars, layVars, parVars, shpVars>>

\* registry.match_font(&descriptor)
Match ==
    /\ \E descriptor \in Descriptors :
         reg_call' = [op |-> "match_font", descriptor |-> descriptor,
                      result |-> MatchFont(fonts, iter_order, descriptor)]
    /\ UNCHANGED <<fonts, iter_order, next_id, issued, cacheVars, layVars, parVars, shpVars>>

\* registry.load_system_fonts()
LoadSystemFonts ==
    /\ \E list \in PlatformFontLists :
         /\ next_id + Len(list) <= MaxFonts
         /\ LET after == LoadSystemLoop(fonts, next_id, list, <<>>)
            IN  /\ fonts' = after.fonts
                /\ next_id' = after.next_id
                /\ IF after.ids = <<>> THEN UNCHANGED iter_order
                   ELSE iter_order' \in IterationOrders(DOMAIN after.fonts)
                /\ issued' = issued \o after.ids
                /\ reg_call' = [op |-> "load_system_fonts", discovered |-> list,
                                ok |-> TRUE, count |-> Len(after.ids)]
    /\ UNCHANGED <<cacheVars, layVars, parVars, shpVars>>

NextRegistry == LoadFontData \/ LoadSystemFonts \/ Match

SpecRegistry == InitRegistry /\ [][NextRegistry]_vars

\* The registry under its three ways of loading.
NextLoads == LoadFontData \/ LoadFontFile \/ LoadSystemFonts

SpecLoads == InitRegistry /\ [][NextLoads]_vars

(***************************************************************************)
(* match_font over the range of weights, styles and stretches.             *)
(***************************************************************************)
\* A registry after two loads.
InitScoring ==
    /\ CacheIdle
    /\ LayoutIdle
    /\ ParserIdle
    /\ ShaperIdle
    /\ fonts \in ScoredRegistries
    /\ iter_order \in IterationOrders({0, 1})
    /\ next_id = 2
    /\ issued = <<0, 1>>
    /\ reg_call = [op |-> "none"]

\* registry.match_font(&descriptor)
MatchScored ==
    /\ \E descriptor \in ScoredDescriptors :
         reg_call' = [op |-> "match_font", descriptor |-> descriptor,
                      result |-> MatchFont(fonts, iter_order, descriptor)]
    /\ UNCHANGED <<fonts, iter_order, next_id, issued, cacheVars, layVars, parVars, shpVars>>

NextScoring == MatchScored

SpecScoring == InitScoring /\ [][NextScoring]_vars

(***************************************************************************)
(* text_layout: layout_paragraph as a state machine.                       *)
(***************************************************************************)
InitLayout ==
    /\ CacheIdle
    /\ RegistryIdle
    /\ ParserIdle
    /\ ShaperIdle
    /\ text \in Texts
    /\ shaped_text \in {ShapedTextOf(text), EmptyShapedText}
    /\ options \in LayoutOptionsSet
    /\ breaks = <<>>
    /\ lines = <<>>
    /\ current_line_glyphs = <<>>
    /\ current_width = 0
    /\ line_start_char = 0
    /\ char_index = 0
    /\ last_fit = NoFit
    /\ layout_result = NoResult
    /\ lay_pc = "start"

\* layout_paragraph up to the loop of break_into_lines: validate_inputs,
\* find_breaks, and the single empty line of an empty glyph list.
Begin ==
    /\ lay_pc = "start"
    /\ LET v == ValidateInputs(text, options)
       IN  IF v # "ok"
           THEN /\ layout_result' = [ok |-> FALSE, err |-> v]
                /\ lay_pc' = "done"
                /\ UNCHANGED <<breaks, lines>>
           ELSE /\ breaks' = FindBreaks(text)
                /\ lines' = IF shaped_text.glyphs = <<>>
                            THEN <<NewLine(<<>>, 0, shaped_text, 0, 0)>>
                            ELSE <<>>
                /\ lay_pc' = "fit"
                /\ UNCHANGED layout_result
    /\ UNCHANGED <<text, shaped_text, options, current_line_glyphs, current_width,
                   line_start_char, char_index, last_fit, cacheVars, regVars, parVars, shpVars>>

\* One iteration of the loop of break_into_lines.
FitGlyph ==
    /\ lay_pc = "fit"
    /\ char_index < Len(shaped_text.glyphs)
    /\ LET glyph == shaped_text.glyphs[char_index + 1]
           glyph_width == glyph.advance
           overflow == /\ current_width + glyph_width > options.max_width
                       /\ current_line_glyphs # <<>>
           pre == /\ overflow
                  /\ \/ ShouldBreakHere(char_index, breaks, TRUE)
                     \/ EmergencyBreak(current_width, glyph_width, options.max_width)
           lines1 == IF pre
                     THEN Append(lines, NewLine(current_line_glyphs, current_width,
                                                shaped_text, line_start_char, char_index))
                     ELSE lines
           glyphs1 == IF pre THEN <<>> ELSE current_line_glyphs
           width1 == IF pre THEN 0 ELSE current_width
           start1 == IF pre THEN char_index ELSE line_start_char
           glyphs2 == Append(glyphs1, glyph)
           width2 == width1 + glyph_width
           index2 == char_index + 1
           post == ShouldBreakHere(index2, breaks, FALSE)
       IN  /\ lines' = IF post
                       THEN Append(lines1, NewLine(glyphs2, width2, shaped_text,
                                                   start1, index2))
                       ELSE lines1
           /\ current_line_glyphs' = IF post THEN <<>> ELSE glyphs2
           /\ current_width' = IF post THEN 0 ELSE width2
           /\ line_start_char' = IF post THEN index2 ELSE start1
           /\ char_index' = index2
           /\ last_fit' = [seen |-> TRUE, index |-> char_index, overflow |-> overflow,
                           pre |-> pre, post |-> post, lines_before |-> Len(lines)]
    /\ UNCHANGED <<text, shaped_text, options, breaks, layout_result, lay_pc,
                   cacheVars, regVars, parVars, shpVars>>

\* The end of break_into_lines (the final line) and the rest of
\* layout_paragraph.
Finish ==
    /\ lay_pc = "fit"
    /\ char_index >= Len(shaped_text.glyphs)
    /\ lines' = IF current_line_glyphs # <<>>
                THEN Append(lines, NewLine(current_line_glyphs, current_width, shaped_text,
                                           line_start_char, ByteLen(text)))
                ELSE lines
    /\ layout_result' = LayoutResultOf(lines', options)
    /\ lay_pc' = "done"
    /\ UNCHANGED <<text, shaped_text, options, breaks, current_line_glyphs, current_width,
                   line_start_char, char_index, last_fit, cacheVars, regVars, parVars, shpVars>>

NextLayout == Begin \/ FitGlyph \/ Finish

SpecLayout == InitLayout /\ [][NextLayout]_vars

(***************************************************************************)
(* Justifier called on lines of the caller's own.                          *)
(***************************************************************************)
\* Justifier::new() and the lines, target width and mode of the call.
InitJustifier ==
    /\ CacheIdle
    /\ RegistryIdle
    /\ ParserIdle
    /\ ShaperIdle
    /\ text = <<>>
    /\ shaped_text = EmptyShapedText
    /\ breaks = <<>>
    /\ current_line_glyphs = <<>>
    /\ current_width = 0
    /\ line_start_char = 0
    /\ char_index = 0
    /\ last_fit = NoFit
    /\ layout_result = NoResult
    /\ lines \in JustifierLineLists
    /\ options \in [max_width : JustifierTargets, max_height : { <<>> },
                    justification : JustificationModes, line_spacing : {6}]
    /\ lay_pc = "lines"

\* justifier.justify_lines(&mut lines, target_width, mode)
JustifyLinesCall ==
    /\ lay_pc = "lines"
    /\ layout_result' = [ok |-> TRUE,
                         lines |-> JustifyLines(lines, options.max_width,
                                                options.justification)]
    /\ lay_pc' = "justified"
    /\ UNCHANGED <<text, shaped_text, options, breaks, lines, current_line_glyphs,
                   current_width, line_start_char, char_index, last_fit,
                   cacheVars, regVars, parVars, shpVars>>

NextJustifier == JustifyLinesCall

SpecJustifier == InitJustifier /\ [][NextJustifier]_vars

(***************************************************************************)
(* text_layout: VerticalLayout::layout_vertical.  Lengths are in 1/12 px   *)
(* as in the paragraph layout.                                             *)
(***************************************************************************)
\* horizontal advances of the shaped glyphs: 10, 20 and 25 px
VerticalAdvances == {120, 240, 300}

\* The glyphs of a ShapedText as the shaper positions them: on the baseline,
\* each at the pen, with a horizontal advance.
RECURSIVE PenGlyphs(_, _)
PenGlyphs(advances, pen) ==
    IF advances = <<>> THEN <<>>
    ELSE <<[glyph_id |-> 1, x |-> pen, y |-> 0,
            advance_x |-> Head(advances), advance_y |-> 0]>>
         \o PenGlyphs(Tail(advances), pen + Head(advances))

RECURSIVE SumSeq(_)
SumSeq(ns) == IF ns = <<>> THEN 0 ELSE Head(ns) + SumSeq(Tail(ns))

AdvancesOfLen(n) == [1..n -> VerticalAdvances]
VerticalShapedTexts ==
    { [glyphs |-> PenGlyphs(advances, 0), width |-> SumSeq(advances),
       height |-> 240, baseline |-> 180] :
          advances \in UNION { AdvancesOfLen(n) : n \in 0..MaxGlyphs } }

VerticalTexts == { <<>>, <<"a", "a">> }
TextDirections == {"LeftToRight", "TopToBottom"}
VerticalOptions ==
    [max_width : {0, 240, 480, 600}, max_height : { <<>>, <<300>> },
     direction : TextDirections]

\* VerticalLayout::validate_inputs
ValidateVerticalInputs(t, opts) ==
    IF t = <<>> THEN "InvalidText"
    ELSE IF opts.max_width <= 0 THEN "InvalidOptions"
    ELSE IF opts.direction # "TopToBottom" THEN "InvalidOptions"
    ELSE "ok"

\* The LayoutLine break_into_columns pushes for a column.
NewColumn(column_glyphs, column_height, st, first, last) ==
    [glyphs |-> column_glyphs, width |-> column_height, height |-> st.width,
     baseline |-> st.baseline, x_offset |-> 0, y_offset |-> 0,
     text_range |-> <<first, last>>]

\* The test of break_into_columns that closes the current column.
ColumnIsFull(current_height, glyph_height, max_column_height, column_glyphs) ==
    /\ current_height + glyph_height > max_column_height
    /\ column_glyphs # <<>>

\* The loop of break_into_columns over the glyphs still to place, and the
\* push of the final column after it.
RECURSIVE ColumnLoop(_, _, _, _, _, _, _, _)
ColumnLoop(gs, st, max_column_height, columns, column_glyphs, current_height, column_start_char, idx) ==
    IF gs = <<>>
    THEN IF column_glyphs # <<>>
         THEN Append(columns, NewColumn(column_glyphs, current_height, st,
                                        column_start_char, idx))
         ELSE columns
    ELSE LET glyph_height == st.height
         IN  IF ColumnIsFull(current_height, glyph_height, max_column_height,
                             column_glyphs)
             THEN ColumnLoop(Tail(gs), st, max_column_height,
                             Append(columns, NewColumn(column_glyphs, current_height,
                                                       st, column_start_char, idx)),
                             <<Head(gs)>>, glyph_height, idx, idx + 1)
             ELSE ColumnLoop(Tail(gs), st, max_column_height, columns,
                             Append(column_glyphs, Head(gs)),
                             current_height + glyph_height,
                             column_start_char, idx + 1)

\* VerticalLayout::break_into_columns
BreakIntoColumns(st, max_column_height) ==
    IF st.glyphs = <<>>
    THEN << [glyphs |-> <<>>, width |-> st.height, height |-> st.width,
             baseline |-> st.baseline, x_offset |-> 0, y_offset |-> 0,
             text_range |-> <<0, 0>>] >>
    ELSE ColumnLoop(st.glyphs, st, max_column_height, <<>>, <<>>, 0, 0, 0)

\* VerticalLayout::position_columns
PositionColumns(columns, st) ==
    [i \in DOMAIN columns |->
        [columns[i] EXCEPT !.x_offset = (i - 1) * st.width]]

\* The inner loop of apply_vertical_orientation over the glyphs of a column.
RECURSIVE StackGlyphs(_, _)
StackGlyphs(gs, y_pos) ==
    IF gs = <<>> THEN <<>>
    ELSE LET glyph == Head(gs)
         IN  <<[glyph EXCEPT !.y = y_pos, !.advance_x = 0,
                             !.advance_y = glyph.advance_x]>>
             \o StackGlyphs(Tail(gs), y_pos + glyph.advance_x)

\* VerticalLayout::apply_vertical_orientation
ApplyVerticalOrientation(columns) ==
    [i \in DOMAIN columns |->
        [columns[i] EXCEPT !.glyphs = StackGlyphs(columns[i].glyphs, 0)]]

RECURSIVE MaxColumnWidth(_)
MaxColumnWidth(columns) ==
    IF columns = <<>> THEN 0
    ELSE LET rest == MaxColumnWidth(Tail(columns))
         IN  IF Head(columns).width > rest THEN Head(columns).width ELSE rest

\* VerticalLayout::layout_vertical
LayoutVertical(t, st, opts) ==
    IF ValidateVerticalInputs(t, opts) # "ok"
    THEN [ok |-> FALSE, err |-> ValidateVerticalInputs(t, opts)]
    ELSE LET columns == ApplyVerticalOrientation(
                            PositionColumns(BreakIntoColumns(st, opts.max_width), st))
             total_width == columns[Len(columns)].x_offset
                                + columns[Len(columns)].height
         IN  [ok |-> TRUE, lines |-> columns,
              total_height |-> MaxColumnWidth(columns),
              total_width |-> total_width,
              overflow |-> IF opts.max_height # <<>>
                           THEN total_width > opts.max_height[1] ELSE FALSE]

InitVertical ==
    /\ CacheIdle
    /\ RegistryIdle
    /\ ParserIdle
    /\ ShaperIdle
    /\ breaks = <<>>
    /\ lines = <<>>
    /\ current_line_glyphs = <<>>
    /\ current_width = 0
    /\ line_start_char = 0
    /\ char_index = 0
    /\ last_fit = NoFit
    /\ layout_result = NoResult
    /\ text \in VerticalTexts
    /\ shaped_text \in VerticalShapedTexts
    /\ options \in VerticalOptions
    /\ lay_pc = "vertical"

\* layout.layout_vertical(text, &shaped_text, &options)
LayoutVerticalCall ==
    /\ lay_pc = "vertical"
    /\ layout_result' = LayoutVertical(text, shaped_text, options)
    /\ lay_pc' = "columns"
    /\ UNCHANGED <<text, shaped_text, options, breaks, lines, current_line_glyphs,
                   current_width, line_start_char, char_index, last_fit,
                   cacheVars, regVars, parVars, shpVars>>

NextVertical == LayoutVerticalCall

SpecVertical == InitVertical /\ [][NextVertical]_vars


(***************************************************************************)
(* font_parser: parse and get_table as a state machine.                    *)
(***************************************************************************)
InitParser ==
    /\ CacheIdle
    /\ RegistryIdle
    /\ LayoutIdle
    /\ ShaperIdle
    /\ container \in Containers
    /\ parse_result = Nothing
    /\ table_result = Nothing
    /\ par_pc = "start"
    /\ VariationIdle

\* OpenTypeFont::parse(data)
Parse ==
    /\ par_pc = "start"
    /\ parse_result' = ParseFont(container)
    /\ par_pc' = IF parse_result'.kind = "ok" THEN "parsed" ELSE "dead"
    /\ UNCHANGED <<container, table_result, varVars, cacheVars, regVars, layVars, shpVars>>

\* font.get_table(tag) on a parsed font; a panic ends the run.
GetTable ==
    /\ par_pc = "parsed"
    /\ \E tag \in Tags :
           table_result' = GetTableOf(parse_result, tag)
    /\ par_pc' = IF table_result'.kind = "panic" THEN "dead" ELSE "parsed"
    /\ UNCHANGED <<container, parse_result, varVars, cacheVars, regVars, layVars, shpVars>>

NextParser == Parse \/ GetTable

SpecParser == InitParser /\ [][NextParser]_vars

\* WOFF files as a compressor writes them: the table data follows the
\* directory, each table is stored as it is or deflated, and the original
\* lengths are 5, 8 and 54 bytes.
WoffFileEntries ==
    [tag : Tags, offset : {84}, comp_length : {4}, orig_length : {5, 8, 54},
     inflates : {TRUE}]
    \cup { [tag |-> t, offset |-> 84, comp_length |-> n, orig_length |-> n,
            inflates |-> TRUE] : t \in Tags, n \in {5, 8, 54} }

WoffFiles ==
    { [signature |-> WoffSignature, len |-> 200, flavor |-> TrueTypeVersion,
       num_tables |-> Len(d), dir |-> d,
       meta |-> [meta_offset |-> 0, meta_length |-> 0, inflates |-> TRUE]] :
          d \in SeqsUpTo(WoffFileEntries, MaxTables) }

InitReconstruct ==
    /\ CacheIdle
    /\ RegistryIdle
    /\ LayoutIdle
    /\ ShaperIdle
    /\ container \in WoffFiles
    /\ parse_result = Nothing
    /\ table_result = Nothing
    /\ par_pc = "start"
    /\ VariationIdle

SpecReconstruct == InitReconstruct /\ [][NextParser]_vars

(***************************************************************************)
(* font_parser: the table decoders and VariationCoordinates as state       *)
(* machines.                                                               *)
(***************************************************************************)
ParserAtRest ==
    /\ container = [signature |-> 0, len |-> 0, num_tables |-> 0, dir |-> <<>>]
    /\ parse_result = Nothing
    /\ table_result = Nothing
    /\ par_pc = "idle"

InitDecoders ==
    /\ CacheIdle
    /\ RegistryIdle
    /\ LayoutIdle
    /\ ShaperIdle
    /\ ParserAtRest
    /\ table_data \in FvarTables \cup AvarTables
    /\ decoded = Nothing
    /\ coords = <<>>
    /\ coords_call = [n |-> 0]
    /\ last_set = <<>>

\* FvarTable::parse(data)
DecodeFvar ==
    /\ table_data.kind = "fvar"
    /\ decoded = Nothing
    /\ decoded' = FvarParse(table_data)
    /\ UNCHANGED <<table_data, coords, coords_call, last_set, container, parse_result,
                   table_result, par_pc, cacheVars, regVars, layVars, shpVars>>

\* AvarTable::parse(data, axis_count)
DecodeAvar ==
    /\ table_data.kind = "avar"
    /\ decoded = Nothing
    /\ \E axis_count \in 0..2 :
           decoded' = AvarParse(table_data, axis_count)
    /\ UNCHANGED <<table_data, coords, coords_call, last_set, container, parse_result,
                   table_result, par_pc, cacheVars, regVars, layVars, shpVars>>

NextDecoders == DecodeFvar \/ DecodeAvar

SpecDecoders == InitDecoders /\ [][NextDecoders]_vars

\* VariationCoordinates::new()
InitCoordinates ==
    /\ CacheIdle
    /\ RegistryIdle
    /\ LayoutIdle
    /\ ShaperIdle
    /\ ParserAtRest
    /\ table_data = NoTable
    /\ decoded = Nothing
    /\ coords = <<>>
    /\ coords_call = [n |-> 0]
    /\ last_set = <<>>

\* coords.set_axis(tag, value)
SetAxis ==
    /\ coords_call.n < MaxOps
    /\ \E tag \in AxisTags, value \in AxisValues :
           /\ coords' = SetAxisOf(coords, tag, value)
           /\ coords_call' = [n |-> coords_call.n + 1, op |-> "set_axis", tag |-> tag,
                              value |-> value]
           /\ last_set' = [t \in DOMAIN last_set \cup {tag} |->
                              IF t = tag THEN value ELSE last_set[t]]
    /\ UNCHANGED <<table_data, decoded, container, parse_result, table_result, par_pc,
                   cacheVars, regVars, layVars, shpVars>>

\* coords.get_axis(tag)
GetAxis ==
    /\ coords_call.n < MaxOps
    /\ \E tag \in AxisTags :
           coords_call' = [n |-> coords_call.n + 1, op |-> "get_axis", tag |-> tag,
                           result |-> GetAxisOf(coords, tag)]
    /\ UNCHANGED <<table_data, decoded, coords, last_set, container, parse_result,
                   table_result, par_pc, cacheVars, regVars, layVars, shpVars>>

NextCoordinates == SetAxis \/ GetAxis

SpecCoordinates == InitCoordinates /\ [][NextCoordinates]_vars

(***************************************************************************)
(* text_shaper: TextShaper as a state machine.                             *)
(***************************************************************************)
\* TextShaper::with_config(registry, config)
InitShaper ==
    /\ CacheIdle
    /\ RegistryIdle
    /\ LayoutIdle
    /\ ParserIdle
    /\ shape_config \in [max_entries : {1, 2}, enable_statistics : BOOLEAN]
    /\ shape_entries = <<>>
    /\ shape_stats = [hits |-> 0, misses |-> 0, evictions |-> 0]
    /\ shape_call = [n |-> 0]
    /\ hb_output = <<>>
    /\ hb_spacing = 0
    /\ hb_shaped = NotConverted

\* shaper.shape_text(text, font_id, size, &options)
Shape ==
    /\ shape_call.n < MaxShapes
    /\ \E t \in ShapeTexts, font_id \in FontIdsAsked, size \in ShapeSizes,
          o \in ShapingOptionsSet :
         LET r == ShapeText(shape_config, shape_entries, shape_stats, t, font_id, size, o)
         IN  /\ shape_entries' = r.entries
             /\ shape_stats' = r.stats
             /\ shape_call' = [n |-> shape_call.n + 1, text |-> t, font_id |-> font_id,
                               size |-> size, options |-> o, result |-> r.result]
    /\ UNCHANGED <<shape_config, hb_output, hb_spacing, hb_shaped,
                   cacheVars, regVars, layVars, parVars>>

NextShaper == Shape

SpecShaper == InitShaper /\ [][NextShaper]_vars

(***************************************************************************)
(* The conversion of the engine's output into a ShapedText.                *)
(***************************************************************************)
\* The engine has returned its glyph infos and positions.
InitConversion ==
    /\ CacheIdle
    /\ RegistryIdle
    /\ LayoutIdle
    /\ ParserIdle
    /\ shape_config = [max_entries |-> 1, enable_statistics |-> FALSE]
    /\ shape_entries = <<>>
    /\ shape_stats = [hits |-> 0, misses |-> 0, evictions |-> 0]
    /\ shape_call = [n |-> 0]
    /\ hb_output \in EngineOutputs
    /\ hb_spacing \in LetterSpacings
    /\ hb_shaped = NotConverted

\* The loop over the infos and positions and the ShapedText built after it.
Convert ==
    /\ ~hb_shaped.done
    /\ hb_shaped' = ConvertOutput(hb_output, hb_spacing)
    /\ UNCHANGED <<shape_config, shape_entries, shape_stats, shape_call,
                   hb_output, hb_spacing, cacheVars, regVars, layVars, parVars>>

NextConversion == Convert

SpecConversion == InitConversion /\ [][NextConversion]_vars

(***************************************************************************)
(* Glyph cache properties.                                                 *)
(***************************************************************************)
\* C1: after any sequence of inserts, gets and clears, memory_bytes equals
\* the sum of bitmap.data.len() over the resident entries.
BytesEqualResidentSum == memory_bytes = SumLen(entries)

\* A byte-budget eviction and an insertion have happened and entries remain.
BytesEqualResidentSumWitness ==
    /\ served.op = "insert"
    /\ stats.evictions >= 2
    /\ Len(entries) >= 2
    /\ memory_bytes >= 3

\* C2: after any sequence of inserts of bitmaps of any sizes the cache is
\* within both bounds: memory_bytes <= max_memory_bytes and the number of
\* entries <= max_entries.
CacheWithinDualBound ==
    /\ memory_bytes <= max_memory_bytes
    /\ Len(entries) <= max_entries

\* C3: a rasterize request answered from the cache is answered with a bitmap
\* rasterized for the same face, glyph id, quantized size and mode.
HitServesSameFace ==
    (served.op = "rasterize" /\ served.hit) =>
        /\ served.result[1].face = served.font
        /\ served.result[1].glyph_id = served.glyph_id
        /\ served.result[1].size = SizeFixed(served.size)
        /\ served.result[1].mode = served.mode

(***************************************************************************)
(* Font matching properties.                                               *)
(***************************************************************************)
\* The registered faces of the k-th family of a descriptor's chain.
Candidates(descriptor, k) ==
    { id \in DOMAIN fonts :
        ToLowercase(fonts[id].family_name) = ToLowercase(descriptor.family[k]) }

\* C4: match_font returns a face of the first family of the chain that has a
\* registered face, and none when no family of the chain has one.
MatchFollowsFamilyChain ==
    reg_call.op = "match_font" =>
        LET d == reg_call.descriptor
            having == { k \in 1..Len(d.family) : Candidates(d, k) # {} }
        IN  IF having = {} THEN reg_call.result = <<>>
            ELSE /\ reg_call.result # <<>>
                 /\ reg_call.result[1] \in
                        Candidates(d, CHOOSE k \in having : \A j \in having : k <= j)

\* C5: among the faces of the family of the returned face, the returned face
\* has the smallest score, and of those with the smallest score the lowest id.
MatchPicksLowestIdOfBestScore ==
    (reg_call.op = "match_font" /\ reg_call.result # <<>>) =>
        LET d == reg_call.descriptor
            id == reg_call.result[1]
            family == { c \in DOMAIN fonts :
                          ToLowercase(fonts[c].family_name)
                              = ToLowercase(fonts[id].family_name) }
        IN  \A c \in family :
                /\ Score(d, fonts[id]) <= Score(d, fonts[c])
                /\ Score(d, fonts[c]) = Score(d, fonts[id]) => id <= c

(***************************************************************************)
(* Paragraph layout properties.                                            *)
(***************************************************************************)
\* The offsets of the breaks at or before an index.
BreaksAtOrBefore(index) ==
    { breaks[i].offset : i \in { j \in 1..Len(breaks) : breaks[j].offset <= index } }

SetMax(S) == CHOOSE m \in S : \A x \in S : x <= m

\* The last iteration met a non-empty buffer that the next glyph would push
\* past max_width, with a break at or before the index of that glyph.
OverflowWithOpportunity ==
    /\ last_fit.seen
    /\ last_fit.overflow
    /\ BreaksAtOrBefore(last_fit.index) # {}

\* C6: in the greedy fit, when the buffer is non-empty, the next glyph would
\* make the line wider than max_width, and a break opportunity exists at or
\* before the current index, the current line is ended at that opportunity
\* and the glyphs after the opportunity are carried into the new line.
OverflowBreaksAtOpportunity ==
    OverflowWithOpportunity =>
        LET opportunity == SetMax(BreaksAtOrBefore(last_fit.index))
        IN  /\ last_fit.pre
            /\ lines[last_fit.lines_before + 1].text_range[2] = opportunity
            /\ ~last_fit.post =>
                   Len(current_line_glyphs) = last_fit.index + 1 - opportunity

\* No glyph of the text would push the line past max_width, and no mandatory
\* break sits before the end of the text.
FitsWithoutMandatoryBreak ==
    /\ shaped_text.glyphs # <<>>
    /\ ByteLen(text) = Len(text)
    /\ shaped_text.glyphs[Len(text)].x + shaped_text.glyphs[Len(text)].advance
           <= options.max_width
    /\ \A i \in 1..Len(breaks) : breaks[i].required => breaks[i].offset = ByteLen(text)

\* C7: after a glyph is appended the line is ended only if a mandatory break
\* sits at the new index, an optional opportunity alone never ends a line,
\* and a text whose glyphs all fit within max_width and that has no mandatory
\* break before its end is laid out as exactly one line.
OnlyMandatoryBreakEndsLine ==
    /\ (last_fit.seen /\ last_fit.post) =>
           \E i \in 1..Len(breaks) :
               breaks[i].offset = last_fit.index + 1 /\ breaks[i].required
    /\ (lay_pc = "done" /\ layout_result.ok /\ FitsWithoutMandatoryBreak) =>
           Len(layout_result.lines) = 1

ParserNeverPanics ==
    /\ parse_result.kind # "panic"
    /\ table_result.kind # "panic"

\* C10: every directory entry of a successfully parsed font satisfies
\* offset + length <= container length, and a container with an entry
\* outside its bytes makes parse fail with CorruptedData.
ParsedDirectoryInBounds ==
    /\ parse_result.kind = "ok" =>
           \A tag \in DOMAIN parse_result.tables :
               parse_result.tables[tag].offset + parse_result.tables[tag].length
                   <= parse_result.data_len
    /\ ( /\ par_pc # "start"
         /\ container.signature \in {TrueTypeVersion, OttoVersion}
         /\ container.len >= SfntHeaderLen + SfntEntryLen * container.num_tables
         /\ \E i \in 1..container.num_tables :
                container.dir[i].offset + container.dir[i].length > container.len )
       => parse_result = Failed("CorruptedData")

(***************************************************************************)
(* Glyph cache: eviction order and counters.                               *)
(***************************************************************************)
ResidentKeys(es) == { es[i].key : i \in 1..Len(es) }

\* The resident key whose most recent get or put is oldest.
OldestResident ==
    CHOOSE k \in ResidentKeys(entries) :
        \A j \in ResidentKeys(entries) : last_use[k].at <= last_use[j].at

\* This step is a put of a new key into a store that is full by entry count
\* and has the bytes to spare.
PutOverflowsEntryBound ==
    /\ served'.op = "insert"
    /\ ops' = ops + 1
    /\ served'.key \notin ResidentKeys(entries)
    /\ Len(entries) = max_entries
    /\ memory_bytes + served'.bitmap.len <= max_memory_bytes

\* C11: when a put overflows the entry bound, the entry removed is the one
\* whose most recent get or put is oldest, and every other entry stays.
EntryBoundEvictsLeastRecentlyUsed ==
    [][PutOverflowsEntryBound =>
           ResidentKeys(entries') =
               (ResidentKeys(entries) \ {OldestResident}) \cup {served'.key}]_vars

\* put A; put B; get A; put C with max_entries = 2 has left A and C.
EntryBoundEvictsLeastRecentlyUsedWitness ==
    /\ served.op = "insert"
    /\ max_entries = 2
    /\ ops = 4
    /\ stats.hits = 1
    /\ stats.evictions = 1
    /\ Len(entries) = 2
    /\ \E a \in ResidentKeys(entries), b \in Keys \ ResidentKeys(entries) :
           /\ last_use[a] = Used(3, "get")
           /\ last_use[b] = Used(2, "put")
           /\ last_use[served.key] = Used(4, "put")

\* This step is a put.
IsPut == served'.op = "insert" /\ ops' = ops + 1

\* The entries that are left when the n least recently used are removed.
DropOldest(n) == SubSeq(entries, n + 1, Len(entries))

\* The bytes are within max_bytes - b, or the store is empty, once the n least
\* recently used entries are removed.
FitsAfterDropping(n, b) ==
    \/ SumLen(DropOldest(n)) <= max_memory_bytes - b
    \/ n = Len(entries)

\* The least number of removals after which the bitmap of b bytes fits.
BudgetEvictions(b) ==
    CHOOSE n \in 0..Len(entries) :
        /\ FitsAfterDropping(n, b)
        /\ \A m \in 0..(n - 1) : ~FitsAfterDropping(m, b)

\* The entries are in the order of their most recent get or put.
OrderedByLastUse(es) ==
    \A i, j \in 1..Len(es) : i < j => last_use[es[i].key].at < last_use[es[j].key].at

\* C12: a put of b bytes that would take the bytes above max_bytes first
\* removes entries in least-recently-used order and stops as soon as
\* bytes <= max_bytes - b or the store is empty; a put with bytes + b <=
\* max_bytes and the entry bound not exceeded removes no entry.
BudgetEvictsUntilFit ==
    [][IsPut =>
           LET b == served'.bitmap.len
               key == served'.key
           IN  /\ OrderedByLastUse(entries)
               /\ memory_bytes + b > max_memory_bytes =>
                      ResidentKeys(entries') =
                          ResidentKeys(DropOldest(BudgetEvictions(b))) \cup {key}
               /\ ( /\ memory_bytes + b <= max_memory_bytes
                    /\ (key \in ResidentKeys(entries) \/ Len(entries) < max_entries) )
                  => ResidentKeys(entries') = ResidentKeys(entries) \cup {key}]_vars

\* Puts of 2, 2 and 2 bytes with max_memory_bytes = 5 have left the second
\* and the third resident with 4 bytes.
BudgetEvictsUntilFitWitness ==
    /\ served.op = "insert"
    /\ max_memory_bytes = 5
    /\ max_entries = 4
    /\ ops = 3
    /\ stats.evictions = 1
    /\ Len(entries) = 2
    /\ memory_bytes = 4
    /\ last_use[entries[1].key] = Used(2, "put")
    /\ last_use[entries[2].key] = Used(3, "put")
    /\ \E first \in Keys \ ResidentKeys(entries) : last_use[first] = Used(1, "put")

\* C13: the evictions counter counts the entries removed by puts: a call
\* that puts a bitmap adds the number of entries it removed, and a hit, a
\* miss that puts nothing and clear add nothing.
EvictionsCountRemovedEntries ==
    [][stats'.evictions - stats.evictions =
           IF served'.op = "clear" THEN 0
           ELSE Cardinality(ResidentKeys(entries) \ ResidentKeys(entries'))]_vars

\* A put has pushed out the least recently used of two entries, after a
\* call that was served from the cache.
EvictionsCountRemovedEntriesWitness ==
    /\ served.op = "rasterize"
    /\ ~served.hit
    /\ served.result # <<>>
    /\ stats.evictions = 1
    /\ stats.hits + stats.misses = 3
    /\ max_entries = 2
    /\ Len(entries) = 2

(***************************************************************************)
(* Text shaper properties.                                                 *)
(***************************************************************************)
\* Two options that differ at most in the order their features are listed.
SameOptions(o1, o2) ==
    /\ [o1 EXCEPT !.features = <<>>] = [o2 EXCEPT !.features = <<>>]
    /\ { o1.features[i] : i \in 1..Len(o1.features) }
           = { o2.features[i] : i \in 1..Len(o2.features) }

\* This step is a shape call with the text, face and size of the call
\* before it and with equal options, on a shaper that has a cache, after a
\* call that returned a ShapedText.
RepeatedShape ==
    /\ shape_call.n >= 1
    /\ shape_call'.n = shape_call.n + 1
    /\ shape_config.enable_statistics
    /\ shape_call.result.ok
    /\ shape_call'.text = shape_call.text
    /\ shape_call'.font_id = shape_call.font_id
    /\ shape_call'.size = shape_call.size
    /\ SameOptions(shape_call'.options, shape_call.options)

ServedFromShapingCache ==
    /\ shape_call'.result = shape_call.result
    /\ shape_stats'.hits = shape_stats.hits + 1
    /\ shape_stats'.misses = shape_stats.misses

\* C14 as stated: two shape calls with the same (text, face, size_px) and
\* semantically equal options return equal ShapedText, and the second
\* increments hits by one and leaves misses unchanged.
RepeatedShapeIsHit == [][RepeatedShape => ServedFromShapingCache]_vars

\* C14, amended: two shape calls with the same non-empty text, the same face
\* and size_px and semantically equal options return equal ShapedText, and
\* the second increments hits by one and leaves misses unchanged; a call with
\* empty text does not touch the cache.
RepeatedShapeOfTextIsHit ==
    [][(RepeatedShape /\ shape_call.text # "") => ServedFromShapingCache]_vars

\* The second of two calls was a hit on what the first call shaped, with the
\* features listed in the other order by one of them.
RepeatedShapeOfTextIsHitWitness ==
    /\ shape_call.n = 2
    /\ shape_stats.hits = 1
    /\ shape_stats.misses = 1
    /\ shape_call.result.ok
    /\ shape_call.text = "hi"
    /\ shape_call.result.shaped.size = shape_call.size
    /\ Len(shape_call.options.features) = 2
    /\ shape_call.options.features # SortByTag(shape_call.options.features)

(***************************************************************************)
(* Font registry: determinism and face ids.                                *)
(***************************************************************************)
\* C15: match_font is a function of the registered faces (with their ids)
\* and the descriptor: every evaluation on a registry holding these faces,
\* whatever order its map yields them in, returns what this one returned.
MatchIsFunctionOfRegistryState ==
    reg_call.op = "match_font" =>
        \A order \in IterationOrders(DOMAIN fonts) :
            MatchFont(fonts, order, reg_call.descriptor) = reg_call.result

\* C16: the face ids handed out by successful loads are strictly increasing
\* in the order of the loads, so no id is handed out twice, also when the
\* same file is loaded again; no load fails with DuplicateFont.
FaceIdsStrictlyIncrease ==
    /\ \A i \in 1..Len(issued) : \A j \in 1..Len(issued) :
           i < j => issued[i] < issued[j]
    /\ (reg_call.op = "load_font_data" /\ reg_call.ok) =>
           /\ issued # <<>>
           /\ reg_call.id = issued[Len(issued)]
           /\ reg_call.id \in DOMAIN fonts
    /\ (reg_call.op \in {"load_font_data", "load_system_fonts"} /\ ~reg_call.ok) =>
           reg_call.err # "DuplicateFont"

\* The same Arial Regular file loaded by three successful calls in a row:
\* three faces with equal contents under the ids 0, 1 and 2.
FaceIdsStrictlyIncreaseWitness ==
    /\ issued = <<0, 1, 2>>
    /\ reg_call.op = "load_font_data" /\ reg_call.ok /\ reg_call.id = 2
    /\ \A id \in DOMAIN fonts :
           /\ fonts[id].family_name = "Arial" /\ fonts[id].weight = 400
           /\ fonts[id].style = "Normal"

(***************************************************************************)
(* Justification properties.                                               *)
(***************************************************************************)
\* The lines layout_paragraph hands to justify_lines under Full
\* justification that justify_line is applied to: all but the last.
FullyJustifiedLines ==
    IF lay_pc = "done" /\ layout_result.ok /\ options.justification = "Justify"
    THEN 1..(Len(lines) - 1)
    ELSE {}

\* The inter-word gaps of a line: the glyphs of a space that follow a glyph
\* of a word and have a glyph of a word somewhere after them on the line.
IsWordGlyph(g) == g.glyph_id \notin {" ", "\n"}
InterWordGaps(line) ==
    { k \in 2..Len(line.glyphs) :
        /\ line.glyphs[k].glyph_id = " "
        /\ IsWordGlyph(line.glyphs[k - 1])
        /\ \E m \in (k + 1)..Len(line.glyphs) : IsWordGlyph(line.glyphs[m]) }

\* C17: a line that is at least as wide as the target, or has no inter-word
\* gap, comes out of Full justification with x_offset 0 and with its width
\* and every glyph position as they were.
FullLeavesGaplessLineUnchanged ==
    \A i \in FullyJustifiedLines :
        (options.max_width - lines[i].width <= 0 \/ InterWordGaps(lines[i]) = {}) =>
            /\ layout_result.lines[i].x_offset = 0
            /\ layout_result.lines[i].width = lines[i].width
            /\ layout_result.lines[i].glyphs = lines[i].glyphs

\* The lines of a justify_lines call under Full justification that
\* justify_line was applied to: all but the last.
ExpandedCandidates ==
    IF lay_pc = "justified" /\ options.justification = "Justify"
    THEN 1..(Len(lines) - 1)
    ELSE {}

\* The shift Full justification gave the k-th glyph of the i-th line.
ShiftOf(i, k) == layout_result.lines[i].glyphs[k].x - lines[i].glyphs[k].x

\* C18: a line with g >= 1 inter-word gaps that is narrower than the target
\* is expanded by extra/g per gap: every glyph of a word is shifted by
\* extra/g times the number of gaps before it (so the glyphs after the last
\* gap by extra), the width becomes the target and x_offset is 0.
FullSharesExtraEquallyAmongGaps ==
    \A i \in ExpandedCandidates :
        LET extra == options.max_width - lines[i].width
            gaps == InterWordGaps(lines[i])
            g == Cardinality(gaps)
        IN  (g >= 1 /\ extra > 0) =>
                /\ layout_result.lines[i].x_offset = 0
                /\ layout_result.lines[i].width = options.max_width
                /\ \A k \in 1..Len(lines[i].glyphs) :
                       IsWordGlyph(lines[i].glyphs[k]) =>
                           g * ShiftOf(i, k)
                               = extra * Cardinality({ gap \in gaps : gap < k })

\* A line comes out of justification with the width and the glyph positions
\* it went in with.
KeepsWidthAndGlyphs(i) ==
    /\ layout_result.lines[i].width = lines[i].width
    /\ layout_result.lines[i].glyphs = lines[i].glyphs

\* C19: under Full every line but the last is fully justified (x_offset 0,
\* and expanded to the target width when it is narrower and has an
\* inter-word gap, left as it was when it is not narrower) and the last line
\* keeps its width and glyph positions with x_offset 0; under Left, Right
\* and Center every line, the last one included, gets the offset of the mode
\* and keeps its width and glyph positions.
JustifyLinesSparesLastLineUnderFull ==
    lay_pc = "justified" =>
        /\ Len(layout_result.lines) = Len(lines)
        /\ \A i \in 1..Len(lines) :
               LET extra == options.max_width - lines[i].width
                   out == layout_result.lines[i]
                   mode == options.justification
               IN  CASE mode = "Left" -> out.x_offset = 0 /\ KeepsWidthAndGlyphs(i)
                     [] mode = "Right" -> out.x_offset = extra /\ KeepsWidthAndGlyphs(i)
                     [] mode = "Center" -> 2 * out.x_offset = extra /\ KeepsWidthAndGlyphs(i)
                     [] mode = "Justify" ->
                            /\ out.x_offset = 0
                            /\ i = Len(lines) => KeepsWidthAndGlyphs(i)
                            /\ (i < Len(lines) /\ extra <= 0) => KeepsWidthAndGlyphs(i)
                            /\ (i < Len(lines) /\ extra > 0 /\ InterWordGaps(lines[i]) # {}) =>
                                   out.width = options.max_width

\* Three lines, all narrower than the target and each with an inter-word
\* gap, under Full: the first two are expanded to the target, the last one
\* keeps its width.
JustifyLinesSparesLastLineUnderFullWitness ==
    /\ lay_pc = "justified"
    /\ options.justification = "Justify"
    /\ Len(lines) = 3
    /\ \A i \in 1..3 : lines[i].width < options.max_width /\ InterWordGaps(lines[i]) # {}
    /\ layout_result.lines[1].width = options.max_width
    /\ layout_result.lines[2].width = options.max_width
    /\ layout_result.lines[2].glyphs # lines[2].glyphs
    /\ layout_result.lines[3].width = lines[3].width
    /\ layout_result.lines[3].x_offset = 0

(***************************************************************************)
(* Line breaking keeps the glyphs.                                         *)
(***************************************************************************)
\* The glyph lists of the lines one after the other.
RECURSIVE GlyphsOfLines(_)
GlyphsOfLines(ls) ==
    IF ls = <<>> THEN <<>> ELSE Head(ls).glyphs \o GlyphsOfLines(Tail(ls))

\* A glyph sequence without the positions, which justification moves.
WithoutPositions(gs) ==
    [k \in 1..Len(gs) |-> [glyph_id |-> gs[k].glyph_id, advance |-> gs[k].advance]]

\* C20: the glyphs of the lines of a LayoutResult, taken line after line,
\* are the glyphs of the input ShapedText in their order: as pushed by
\* break_into_lines they are equal to the input, and in the result they are
\* the same glyphs with the positions justification gave them.
LinesHoldTheShapedGlyphs ==
    (lay_pc = "done" /\ layout_result.ok) =>
        /\ GlyphsOfLines(lines) = shaped_text.glyphs
        /\ WithoutPositions(GlyphsOfLines(layout_result.lines))
               = WithoutPositions(shaped_text.glyphs)
        /\ options.justification # "Justify" =>
               GlyphsOfLines(layout_result.lines) = shaped_text.glyphs

\* Four glyphs broken into at least three lines.
LinesHoldTheShapedGlyphsWitness ==
    /\ lay_pc = "done"
    /\ layout_result.ok
    /\ Len(shaped_text.glyphs) = 4
    /\ Len(layout_result.lines) >= 3
    /\ \E i \in 1..Len(layout_result.lines) : Len(layout_result.lines[i].glyphs) >= 2
    /\ GlyphsOfLines(layout_result.lines) = shaped_text.glyphs

(***************************************************************************)
(* The emergency break.                                                    *)
(***************************************************************************)
\* Every line pushed so far that holds more than one glyph, and the line
\* being collected, is at most 1.2 times max_width wide.
EmittedWithinEmergencyWidth ==
    /\ \A i \in 1..Len(lines) :
           Len(lines[i].glyphs) > 1 => 5 * lines[i].width <= 6 * options.max_width
    /\ Len(current_line_glyphs) > 1 => 5 * current_width <= 6 * options.max_width

\* The glyph the loop looks at would take the collected line above 1.2
\* times max_width.
PastEmergencyThreshold ==
    /\ lay_pc = "fit"
    /\ char_index < Len(shaped_text.glyphs)
    /\ current_line_glyphs # <<>>
    /\ 5 * (current_width + shaped_text.glyphs[char_index + 1].advance)
           > 6 * options.max_width

\* The line collected so far is pushed, ending at the current position, and
\* the glyph starts the next line.
BreakForcedHere ==
    /\ Len(lines') >= Len(lines) + 1
    /\ lines'[Len(lines) + 1].glyphs = current_line_glyphs
    /\ lines'[Len(lines) + 1].width = current_width
    /\ lines'[Len(lines) + 1].text_range[2] = char_index
    /\ \/ current_line_glyphs' = <<shaped_text.glyphs[char_index + 1]>>
       \/ /\ current_line_glyphs' = <<>>
          /\ lines'[Len(lines')].glyphs = <<shaped_text.glyphs[char_index + 1]>>

\* C21: a line grows beyond max_width when nothing ends it, but as soon as
\* current_line_width + glyph.advance.x > 1.2 * max_width the line is ended
\* at the current position, so no line pushed by break_into_lines that holds
\* more than one glyph is wider than 1.2 * max_width.
EmergencyBreakBoundsLines ==
    [][ /\ PastEmergencyThreshold => BreakForcedHere
        /\ (lay_pc \in {"fit", "done"})' => EmittedWithinEmergencyWidth' ]_vars

\* "WWWa" with max_width 5 px: the third W takes the line to 6 px, which is
\* not above 1.2 * 5, so it stays; the "a" would take it to 7 px and the
\* line of three glyphs and 6 px is ended there.
EmergencyBreakBoundsLinesWitness ==
    /\ lay_pc = "done"
    /\ options.max_width = 60
    /\ Len(lines) = 2
    /\ Len(lines[1].glyphs) = 3
    /\ lines[1].width = 72
    /\ lines[1].text_range = <<0, 3>>
    /\ Len(lines[2].glyphs) = 1

(***************************************************************************)
(* Glyph positions and letter spacing.                                     *)
(***************************************************************************)
\* The pen before the k-th glyph: (0, 0) moved by the advances of the glyphs
\* before it.
RECURSIVE PenBefore(_, _)
PenBefore(gs, k) ==
    IF k <= 1 THEN [x |-> 0, y |-> 0]
    ELSE LET pen == PenBefore(gs, k - 1)
         IN  [x |-> pen.x + gs[k - 1].advance.x, y |-> pen.y + gs[k - 1].advance.y]

\* C22: every glyph of a ShapedText is positioned at the pen plus its own
\* offset, the pen starting at (0, 0) and moved only by the advances of the
\* glyphs before it; the offset of a glyph is the one the engine gave it.
GlyphAtPenPlusOwnOffset ==
    hb_shaped.done =>
        /\ Len(hb_shaped.glyphs) = Len(hb_output)
        /\ \A k \in 1..Len(hb_shaped.glyphs) :
               LET g == hb_shaped.glyphs[k]
                   pen == PenBefore(hb_shaped.glyphs, k)
               IN  /\ g.offset = [x |-> 5 * hb_output[k].x_offset,
                                  y |-> 5 * hb_output[k].y_offset]
                   /\ g.position = [x |-> pen.x + g.offset.x, y |-> pen.y + g.offset.y]

\* Three glyphs, the first two with an offset in x and y and the third
\* without: the third sits at the pen the two advances before it give.
GlyphAtPenPlusOwnOffsetWitness ==
    /\ hb_shaped.done
    /\ Len(hb_shaped.glyphs) = 3
    /\ hb_shaped.glyphs[1].offset = [x |-> -160, y |-> 80]
    /\ hb_shaped.glyphs[2].offset = [x |-> -160, y |-> 80]
    /\ hb_shaped.glyphs[3].offset = [x |-> 0, y |-> 0]
    /\ hb_shaped.glyphs[1].advance.x > 0
    /\ hb_shaped.glyphs[3].position.x
           = hb_shaped.glyphs[1].advance.x + hb_shaped.glyphs[2].advance.x
    /\ hb_shaped.glyphs[3].position.y
           = hb_shaped.glyphs[1].advance.y + hb_shaped.glyphs[2].advance.y

\* The sum of the engine's x_advance over the glyphs, in 1/64 px.
RECURSIVE SumXAdvance(_)
SumXAdvance(ps) == IF ps = <<>> THEN 0 ELSE Head(ps).x_advance + SumXAdvance(Tail(ps))

\* C23: letter_spacing is added to the x advance of every glyph, the last
\* one included, and the width of the ShapedText is the sum of the engine's
\* x advances plus the number of glyphs times letter_spacing.
LetterSpacingOnEveryGlyph ==
    hb_shaped.done =>
        /\ \A k \in 1..Len(hb_output) :
               hb_shaped.glyphs[k].advance.x
                   = 5 * hb_output[k].x_advance + 16 * hb_spacing
        /\ hb_shaped.width
               = 5 * SumXAdvance(hb_output) + Len(hb_output) * 16 * hb_spacing
        /\ hb_shaped.width = PenBefore(hb_shaped.glyphs, Len(hb_shaped.glyphs) + 1).x

\* Three glyphs of 10 px with a letter spacing of 1 px: 33 px.
LetterSpacingOnEveryGlyphWitness ==
    /\ hb_shaped.done
    /\ hb_spacing = 20
    /\ Len(hb_output) = 3
    /\ \A k \in 1..3 : hb_output[k].x_advance = 640
    /\ hb_shaped.glyphs[3].advance.x = 3520
    /\ hb_shaped.width = 10560

(***************************************************************************)
(* Shaping cache keys and empty text.                                      *)
(***************************************************************************)
\* The options that hold the feature set, script, language, direction,
\* kerning, ligatures and spacings of the options of the last call.
SameAsLastOptions == { o \in ShapingOptionsSet : SameOptions(o, shape_call.options) }

\* The cache key of the last call had it been made with other options.
KeyOfLastCallWith(o) ==
    ShapingCacheKey(shape_call.text, shape_call.font_id, shape_call.size, o)

\* C24: options that hold the same set of (tag, value) features and equal
\* other fields give the same options hash and so the same cache key,
\* whatever the order the features are yielded in: the entry a call left in
\* the cache is the entry of each of these options.
CacheKeyIgnoresFeatureOrder ==
    shape_call.n >= 1 =>
        \A o \in SameAsLastOptions :
            /\ OptionsHash(o) = OptionsHash(shape_call.options)
            /\ KeyOfLastCallWith(o) = KeyOfLastCallWith(shape_call.options)
            /\ (shape_config.enable_statistics /\ shape_call.result.ok
                    /\ shape_call.text # "") =>
                   shape_entries[Len(shape_entries)].key = KeyOfLastCallWith(o)

\* Two calls that list kern and liga in opposite orders share one entry of a
\* cache that has room for two.
CacheKeyIgnoresFeatureOrderWitness ==
    /\ shape_call.n = 2
    /\ shape_config = [max_entries |-> 2, enable_statistics |-> TRUE]
    /\ shape_call.result.ok
    /\ shape_call.options.features
           = <<[tag |-> "liga", value |-> 0], [tag |-> "kern", value |-> 1]>>
    /\ Cardinality(SameAsLastOptions) = 2
    /\ Len(shape_entries) = 1
    /\ shape_stats = [hits |-> 1, misses |-> 1, evictions |-> 0]

\* This step is a shape_text call with empty text.
ShapesEmptyText ==
    /\ shape_call'.n = shape_call.n + 1
    /\ shape_call'.text = ""

\* C25: shaping empty text returns an empty ShapedText of zero width, height
\* and baseline without error, whatever face id is passed, and leaves hits,
\* misses, evictions and the cached entries as they were.
EmptyTextLeavesCacheAlone ==
    [][ShapesEmptyText =>
           /\ shape_call'.result.ok
           /\ shape_call'.result.shaped
                  = [glyphs |-> <<>>, width |-> 0, height |-> 0, baseline |-> 0]
           /\ shape_stats' = shape_stats
           /\ shape_entries' = shape_entries]_vars

\* Empty text shaped with a face id the registry does not know, on a shaper
\* whose cache holds an entry and has counted a miss.
EmptyTextLeavesCacheAloneWitness ==
    /\ shape_call.n = 2
    /\ shape_call.text = ""
    /\ shape_call.font_id = 2
    /\ shape_call.result.ok
    /\ shape_call.result.shaped.glyphs = <<>>
    /\ shape_config.enable_statistics
    /\ Len(shape_entries) = 1
    /\ shape_stats = [hits |-> 0, misses |-> 1, evictions |-> 0]

(***************************************************************************)
(* Glyph cache: lookups and clear.                                         *)
(***************************************************************************)
\* This step is a rasterize_glyph call, which looks its key up once.
LooksUp == served'.op = "rasterize" /\ ops' = ops + 1
LookedUpKey == CacheKey(served'.font, served'.glyph_id, served'.size, served'.mode)

\* The call repeats the request of the call before it, which returned a
\* bitmap.
RepeatsServedRequest ==
    /\ served.op = "rasterize"
    /\ served.result # <<>>
    /\ served'.font = served.font
    /\ served'.glyph_id = served.glyph_id
    /\ served'.size = served.size
    /\ served'.mode = served.mode

\* C26: a lookup of a resident key adds one to hits, leaves misses alone and
\* makes the key the most recently used; a lookup of an absent key adds one
\* to misses and leaves hits alone; so a request repeated after it was
\* served adds one to hits and leaves misses and the number of entries as
\* they were.
LookupCountsHitOrMiss ==
    [][LooksUp =>
           /\ LookedUpKey \in ResidentKeys(entries) =>
                  /\ stats'.hits = stats.hits + 1
                  /\ stats'.misses = stats.misses
                  /\ entries'[Len(entries')].key = LookedUpKey
                  /\ ResidentKeys(entries') = ResidentKeys(entries)
           /\ LookedUpKey \notin ResidentKeys(entries) =>
                  /\ stats'.misses = stats.misses + 1
                  /\ stats'.hits = stats.hits
           /\ RepeatsServedRequest =>
                  /\ stats'.hits = stats.hits + 1
                  /\ stats'.misses = stats.misses
                  /\ Len(entries') = Len(entries)]_vars

\* Two requests were rasterized and cached and the older one was asked for
\* again: two misses, one hit, and the older key is the most recently used.
LookupCountsHitOrMissWitness ==
    /\ ops = 3
    /\ served.op = "rasterize"
    /\ served.hit
    /\ served.font # StubFont
    /\ stats.hits = 1
    /\ stats.misses = 2
    /\ Len(entries) = 2
    /\ entries[2].key = CacheKey(served.font, served.glyph_id, served.size, served.mode)
    /\ last_use[entries[1].key] = Used(2, "put")

\* C27: clear() removes every entry and sets the bytes to 0 and leaves hits,
\* misses and evictions at the values they had.
ClearKeepsStatistics ==
    [][(served'.op = "clear" /\ ops' = ops + 1) =>
           /\ entries' = <<>>
           /\ memory_bytes' = 0
           /\ stats' = stats]_vars

\* A cache that had counted a hit and an eviction was cleared as its fourth
\* operation.
ClearKeepsStatisticsWitness ==
    /\ served.op = "clear"
    /\ ops = 4
    /\ entries = <<>>
    /\ memory_bytes = 0
    /\ stats.hits >= 1
    /\ stats.evictions >= 1

(***************************************************************************)
(* The style penalty.                                                      *)
(***************************************************************************)
\* C28: of two candidates of a family that differ only in whether their
\* style is the requested one, the one whose style differs scores exactly
\* 1000 more; a candidate whose style is the requested one scores less than
\* every candidate whose style differs, whatever their weights and
\* stretches, and so match_font returns a face of the requested style
\* whenever a candidate has it.
StylePenaltyDominates ==
    reg_call.op = "match_font" =>
        LET d == reg_call.descriptor
            matching == { id \in DOMAIN fonts : fonts[id].style = d.style }
            differing == DOMAIN fonts \ matching
        IN  /\ \A f \in matching : \A g \in differing :
                   /\ Score(d, fonts[f]) < Score(d, fonts[g])
                   /\ (fonts[f].weight = fonts[g].weight
                           /\ fonts[f].stretch = fonts[g].stretch) =>
                          Score(d, fonts[g]) = Score(d, fonts[f]) + 1000
            /\ matching # {} =>
                   /\ reg_call.result # <<>>
                   /\ reg_call.result[1] \in matching

\* A Black Italic face and a Thin Normal face, asked for Thin Italic
\* UltraExpanded: the Italic face scores 900, the Normal one 1100, and the
\* Italic face is returned.
StylePenaltyDominatesWitness ==
    /\ reg_call.op = "match_font"
    /\ reg_call.descriptor.weight = 100
    /\ reg_call.descriptor.style = "Italic"
    /\ reg_call.descriptor.stretch = 200
    /\ fonts[0].style = "Normal" /\ fonts[0].weight = 100
    /\ fonts[1].style = "Italic" /\ fonts[1].weight = 900
    /\ iter_order = <<0, 1>>
    /\ reg_call.result = <<1>>

(***************************************************************************)
(* System fonts.                                                           *)
(***************************************************************************)
\* The entries of a discovery that can be read and parsed.
Usable(list) == { i \in 1..Len(list) : list[i].readable /\ list[i].parses }

StackedHeight(column) ==
    LET last == column.glyphs[Len(column.glyphs)]
    IN  last.y + last.advance_y

\* C30: in the columns layout_vertical returns, a column holding more than
\* one glyph has a stacked height of at most max_width.
ColumnsWithinMaxColumnHeight ==
    (lay_pc = "columns" /\ layout_result.ok) =>
        \A i \in DOMAIN layout_result.lines :
            Len(layout_result.lines[i].glyphs) > 1 =>
                StackedHeight(layout_result.lines[i]) <= options.max_width


(***************************************************************************)
(* WOFF reconstruction.                                                    *)
(***************************************************************************)
\* The last table of the directory that bears the tag: the one the lookup
\* of the tag answers for.
LastWithTag(dir, tag) ==
    CHOOSE i \in DOMAIN dir :
        /\ dir[i].tag = tag
        /\ \A j \in DOMAIN dir : dir[j].tag = tag => j <= i

\* C31: in the sfnt rebuilt from a WOFF1 container that parsed, the entry of
\* every table has the table's origLength as its length and a 4-byte
\* aligned offset that is exactly where the table's bytes were written, and
\* looking a tag up returns exactly the bytes written for its table.
ReconstructedEntriesAddressTheirTables ==
    (par_pc = "parsed" /\ container.signature = WoffSignature) =>
        LET first == SfntHeaderLen + SfntEntryLen * container.num_tables
            dir == ReconstructedDir(container.dir, first)
            written == WriteTables(container.dir, first)
        IN  /\ \A i \in DOMAIN container.dir :
                   /\ dir[i].length = container.dir[i].orig_length
                   /\ dir[i].offset % 4 = 0
                   /\ dir[i].offset = written[i].start
                   /\ dir[i].offset + dir[i].length = written[i].end
                   /\ written[i].end <= parse_result.data_len
            /\ \A tag \in DOMAIN parse_result.tables :
                   LET i == LastWithTag(container.dir, tag)
                   IN  GetTableOf(parse_result, tag)
                           = [kind |-> "Some", start |-> written[i].start,
                              end |-> written[i].end]
            /\ table_result.kind = "Some" =>
                   \E i \in DOMAIN container.dir :
                       /\ table_result.start = written[i].start
                       /\ table_result.end = written[i].end
                       /\ table_result.end - table_result.start
                              = container.dir[i].orig_length

\* A 54-byte head written after a 5-byte glyf and its three bytes of
\* padding: the lookup of head returns the 54 bytes at 52..106.
ReconstructedEntriesAddressTheirTablesWitness ==
    /\ par_pc = "parsed"
    /\ container.signature = WoffSignature
    /\ Len(container.dir) = 2
    /\ container.dir[1].tag = "glyf"
    /\ container.dir[1].orig_length = 5
    /\ container.dir[2].tag = "head"
    /\ container.dir[2].orig_length = 54
    /\ table_result = [kind |-> "Some", start |-> 52, end |-> 106]


(***************************************************************************)
(* Variable fonts.                                                         *)
(***************************************************************************)
\* C32: decoding an fvar or an avar table whose version is not 1.0 fails
\* with UnsupportedVersion.
VersionOtherThanOneIsUnsupported ==
    (/\ decoded # Nothing
     /\ table_data.len >= 4
     /\ ~(table_data.major_version = 1 /\ table_data.minor_version = 0))
        => decoded = Failed("UnsupportedVersion")

\* The tags of the entries, in order.
TagsOf(values) == [i \in DOMAIN values |-> values[i].tag]

\* C34: a VariationCoordinates value holds at most one entry per tag;
\* set_axis of a present tag replaces the value in place, set_axis of a new
\* tag appends one entry, and get_axis returns the value set last.
OneEntryPerTag ==
    [][/\ \A i, j \in DOMAIN coords' : coords'[i].tag = coords'[j].tag => i = j
       /\ (coords_call'.n # coords_call.n /\ coords_call'.op = "set_axis") =>
              LET tag == coords_call'.tag
                  value == coords_call'.value
              IN  IF \E i \in DOMAIN coords : coords[i].tag = tag
                  THEN /\ TagsOf(coords') = TagsOf(coords)
                       /\ \A i \in DOMAIN coords :
                              coords'[i].value = IF coords[i].tag = tag THEN value
                                                 ELSE coords[i].value
                  ELSE coords' = Append(coords, [tag |-> tag, value |-> value])
       /\ (coords_call'.n # coords_call.n /\ coords_call'.op = "get_axis") =>
              /\ coords' = coords
              /\ coords_call'.result =
                     IF coords_call'.tag \in DOMAIN last_set
                     THEN [kind |-> "Some", value |-> last_set[coords_call'.tag]]
                     ELSE [kind |-> "None"]]_vars

\* wght was set to 100, then wdth, then wght again to 400: two entries, wght
\* still first, and get_axis(wght) returns 400.
OneEntryPerTagWitness ==
    /\ coords = <<[tag |-> "wght", value |-> 400], [tag |-> "wdth", value |-> 100]>>
    /\ coords_call.n = 4
    /\ coords_call.op = "get_axis"
    /\ coords_call.tag = "wght"
    /\ coords_call.result = [kind |-> "Some", value |-> 400]


(***************************************************************************)
(* Required tables.                                                        *)
(***************************************************************************)
\* C33: a container whose table directory has no head table does not
\* parse: the error is MissingTable and no font value is produced.
ParsedFontHasHead ==
    /\ parse_result.kind = "ok" => "head" \in DOMAIN parse_result.tables
    /\ (/\ parse_result.kind = "err"
        /\ container.signature \in {TrueTypeVersion, OttoVersion}
        /\ container.len >= SfntHeaderLen + SfntEntryLen * container.num_tables
        /\ \A i \in DOMAIN container.dir : container.dir[i].tag # "head")
           => parse_result = Failed("MissingTable")


(***************************************************************************)
(* Shaping cache: the quantized size.                                      *)
(***************************************************************************)
\* round(size_px * 10) of a size given in 1/20 px: halves round away from
\* zero.
RoundToTenth(size) == (size + 1) \div 2

\* A call follows a successful call for the same non-empty text, face and
\* options on a shaper whose cache is enabled; the sizes may differ.
SameShapeButSize ==
    /\ shape_call.n >= 1
    /\ shape_call'.n = shape_call.n + 1
    /\ shape_config.enable_statistics
    /\ shape_call.result.ok
    /\ shape_call.text # ""
    /\ shape_call'.text = shape_call.text
    /\ shape_call'.font_id = shape_call.font_id
    /\ SameOptions(shape_call'.options, shape_call.options)

\* C35: two otherwise identical shape requests share a cache entry exactly
\* when their sizes round to the same tenth of a pixel.
SizeIsRoundedToTenth ==
    [][SameShapeButSize =>
           ((shape_stats'.hits = shape_stats.hits + 1)
                <=> RoundToTenth(shape_call'.size) = RoundToTenth(shape_call.size))]_vars


(***************************************************************************)
(* Paragraph layout: vertical positions and text ranges.                   *)
(***************************************************************************)
\* line_height * line_spacing, with line_spacing in fifths.
LineStep == (shaped_text.height * options.line_spacing) \div 5

\* C36: in a LayoutResult the first line has y_offset 0, each following
\* line's y_offset exceeds the previous one's by line_height * line_spacing,
\* and total_height is the last line's y_offset plus line_height.
LinesStackedByLineSpacing ==
    (lay_pc = "done" /\ layout_result.ok /\ layout_result.lines # <<>>) =>
        LET ls == layout_result.lines
        IN  /\ ls[1].y_offset = 0
            /\ \A i \in 1..(Len(ls) - 1) :
                   ls[i + 1].y_offset - ls[i].y_offset = LineStep
            /\ \A i \in DOMAIN ls : ls[i].height = shaped_text.height
            /\ layout_result.total_height
                   = ls[Len(ls)].y_offset + shaped_text.height

\* Three lines of 20 px with line_spacing 1.2: y_offset 0, 24 and 48 px, and
\* a total height of 68 px.
LinesStackedByLineSpacingWitness ==
    /\ lay_pc = "done"
    /\ layout_result.ok
    /\ Len(layout_result.lines) = 3
    /\ layout_result.lines[2].y_offset = 288
    /\ layout_result.lines[3].y_offset = 576
    /\ layout_result.total_height = 816


\* C37: the text_range values of the lines of a LayoutResult partition the
\* bytes of the text: the first starts at 0, each starts where the one
\* before ended, and the last ends at text.len().  The glyphs are those the
\* shaper gives the text, one per character.
TextRangesPartitionTheText ==
    (lay_pc = "done" /\ layout_result.ok /\ shaped_text = ShapedTextOf(text)) =>
        LET ls == layout_result.lines
        IN  /\ ls # <<>>
            /\ ls[1].text_range[1] = 0
            /\ \A i \in 1..(Len(ls) - 1) :
                   ls[i + 1].text_range[1] = ls[i].text_range[2]
            /\ ls[Len(ls)].text_range[2] = ByteLen(text)


(***************************************************************************)
(* Font registry: loads and the faces they leave.                          *)
(***************************************************************************)
\* This step registered one face through load_font_data.
RegistersOneFace ==
    /\ reg_call'.op = "load_font_data"
    /\ reg_call'.ok
    /\ DOMAIN fonts' = DOMAIN fonts \cup {next_id}
    /\ next_id \notin DOMAIN fonts

\* C38: registering a face whose family is none of the families of a
\* descriptor's chain does not change what match returns for the descriptor.
UnrelatedFaceLeavesMatchAlone ==
    [][RegistersOneFace =>
           \A descriptor \in Descriptors :
               ~FamilyMatches(descriptor, fonts'[next_id]) =>
                   MatchFont(fonts', iter_order', descriptor)
                       = MatchFont(fonts, iter_order, descriptor)]_vars


\* C39: a load that fails leaves font_count, the registered ids and the next
\* id as they were, so after any sequence of loads font_count is the number
\* of faces the loads registered and the ids are exactly 0 .. font_count - 1.
FailedLoadLeavesRegistryUnchanged ==
    [][/\ (reg_call'.op \in {"load_font_data", "load_font_file"} /\ ~reg_call'.ok) =>
              /\ fonts' = fonts
              /\ next_id' = next_id
              /\ reg_call'.err \in {"InvalidFont", "FileNotFound"}
              /\ reg_call'.op = "load_font_data" => reg_call'.err = "InvalidFont"
       /\ Cardinality(DOMAIN fonts') = Len(issued')
       /\ DOMAIN fonts' = 0..(Len(issued') - 1)
       /\ next_id' = Len(issued')]_vars

\* load_font_file of a path that cannot be read, on a registry of two faces:
\* FileNotFound, and the registry still holds ids 0 and 1 with 2 next.
FailedLoadLeavesRegistryUnchangedWitness ==
    /\ reg_call = [op |-> "load_font_file", ok |-> FALSE, err |-> "FileNotFound"]
    /\ issued = <<0, 1>>
    /\ DOMAIN fonts = {0, 1}
    /\ next_id = 2


(***************************************************************************)
(* Glyph renderer: failed rasterization.                                   *)
(***************************************************************************)
\* This step is a rasterize_glyph call that returned an error.
RasterizeFails ==
    /\ ops' = ops + 1
    /\ served'.op = "rasterize"
    /\ served'.result = <<>>

\* C40: a rasterize_glyph call that fails inserts nothing: the resident
\* entries, the bytes and the evictions are unchanged and misses advances by
\* exactly one.
FailedRasterizeOnlyCountsMiss ==
    [][RasterizeFails =>
           /\ entries' = entries
           /\ memory_bytes' = memory_bytes
           /\ stats'.evictions = stats.evictions
           /\ stats'.hits = stats.hits
           /\ stats'.misses = stats.misses + 1]_vars

\* The stub font asked for a glyph that is not resident, on a cache that
\* holds an entry: the call failed, the entry is still there and misses is 2.
FailedRasterizeOnlyCountsMissWitness ==
    /\ served.op = "rasterize"
    /\ served.result = <<>>
    /\ served.font = StubFont
    /\ ops = 2
    /\ Len(entries) = 1
    /\ memory_bytes >= 1
    /\ stats = [hits |-> 0, misses |-> 2, evictions |-> 0]

====
